---- MODULE Spec2Model ----
(***************************************************************************)
(* Model of the DA-MCP server: the tool, resource and prompt handlers of   *)
(* the domains, the shared warehouse client, the CSV variant (main.py) and *)
(* the offline forecast job (run.py).                                      *)
(*                                                                         *)
(* One action is one whole handler call.  The warehouse is an external     *)
(* collaborator: what each request to it does (returns data or raises) is  *)
(* an input of the action, drawn with \E.  Every request a handler issues  *)
(* is appended to the call's request log together with its outcome.        *)
(*                                                                         *)
(* Representation of Python values:                                        *)
(*   dict / arguments  a function from keys to values (<<>> is {})         *)
(*   list              a sequence                                          *)
(*   None              NoneStr where a string may stand, NoneNum where a   *)
(*                     non-negative number may stand                       *)
(*   json.dumps(d)     Json(d): the object, tagged as JSON text            *)
(*   round(x, 1)       the number of tenths, as an integer (33.3 -> 333)   *)
(*   DataFrame         [columns |-> <<...>>, data |-> <<row, ...>>]        *)
(***************************************************************************)
EXTENDS Integers, Sequences, FiniteSets, TLC

VARIABLES
    program,        \* which program the process runs: "server", "csv", "batch"
    _client,        \* core/bq_client.py: the module-level singleton
    constructions,  \* how many times bigquery.Client() has been built
    dataframes,     \* main.py: table name -> DataFrame, loaded at startup
    csv_info,       \* main.py: table name -> metadata, loaded at startup
    DATA_DIR,       \* main.py: DA_DATA_DIR, read at startup
    EMAIL_SENDER,   \* main.py: DA_EMAIL_SENDER, read at startup
    EMAIL_PASSWORD, \* main.py: DA_EMAIL_PASSWORD, read at startup
    EMAIL_RECIPIENT, \* main.py: DA_EMAIL_RECIPIENT, read at startup
    t_forecast_feature_importance,  \* warehouse table written by run.py
    t_forecast_predictions,         \* warehouse table written by run.py
    runs,           \* how many times run.py has been started
    pc,             \* "idle": waiting for a request; "done": a call finished
    call            \* the call that just finished (NoCall when idle)

csvVars == <<dataframes, csv_info, DATA_DIR, EMAIL_SENDER, EMAIL_PASSWORD,
            EMAIL_RECIPIENT>>
batchVars == <<t_forecast_feature_importance, t_forecast_predictions, runs>>
vars == <<program, _client, constructions, dataframes, csv_info, DATA_DIR,
          EMAIL_SENDER, EMAIL_PASSWORD, EMAIL_RECIPIENT,
          t_forecast_feature_importance, t_forecast_predictions, runs, pc, call>>

----------------------------------------------------------------------------
(* Bounds of the model *)

MaxTables == 2      \* most tables a dataset lists
MaxSmallRows == 3   \* result sets have 0..MaxSmallRows rows, or sit at a default limit
MaxLimit == 3       \* explicit row limits are 0..MaxLimit
MaxSmallCols == 2   \* narrow tables have 0..MaxSmallCols columns
MaxNulls == 2       \* a statistics query counts 0..MaxNulls nulls
MaxWeeks == 5       \* the weekly view has 0..MaxWeeks rows
MaxAhead == 2       \* explicit forecast horizons are 0..MaxAhead weeks
MaxRuns == 2        \* run.py is started at most MaxRuns times
MaxDeals == 5       \* the deal view has up to MaxDeals rows

----------------------------------------------------------------------------
(* Python values *)

NoneStr == "None"
NoneNum == -1

IndexErrorMsg == "single positional indexer is out-of-bounds"

Msgs == {"Not found: Table", "Access Denied"}   \* messages of warehouse exceptions
ClientMsg == "Your default credentials were not found"

Get(arguments, key, default) ==
    IF key \in DOMAIN arguments THEN arguments[key] ELSE default

\* faulty variant: `v is None` in place of `not v`
FalsyNoneOnly(v) == v = NoneStr

\* `not v` for a value that is a string or None
Falsy(v) == v = NoneStr \/ v = ""

Min(a, b) == IF a < b THEN a ELSE b
Max(a, b) == IF a > b THEN a ELSE b

(* binary64: the arithmetic of Python floats.  A finite double is kept as   *)
(* sign, odd mantissa and exponent, x = (-1)^neg * m * 2^e; the mantissa,   *)
(* up to 53 bits, is a little-endian sequence of limbs of LimbBits bits.    *)
(* Signed zeros, subnormals and overflow are left out.                      *)

LimbBits == 10
Limb == 2^LimbBits
MantissaBits == 53

RECURSIVE BigOf(_)
BigOf(n) == IF n = 0 THEN <<>> ELSE <<n % Limb>> \o BigOf(n \div Limb)

RECURSIVE IntOf(_)
IntOf(a) == IF a = <<>> THEN 0 ELSE a[1] + Limb * IntOf(Tail(a))

RECURSIVE Trim(_)
Trim(a) ==
    IF a # <<>> /\ a[Len(a)] = 0 THEN Trim(SubSeq(a, 1, Len(a) - 1)) ELSE a

RECURSIVE AddCarry(_, _, _)
AddCarry(a, b, c) ==
    IF a = <<>> /\ b = <<>> THEN BigOf(c)
    ELSE LET s == (IF a = <<>> THEN 0 ELSE a[1]) + (IF b = <<>> THEN 0 ELSE b[1]) + c
         IN  <<s % Limb>> \o AddCarry(IF a = <<>> THEN a ELSE Tail(a),
                                      IF b = <<>> THEN b ELSE Tail(b), s \div Limb)

BigAdd(a, b) == AddCarry(a, b, 0)

\* a - b - c for a >= b + c
RECURSIVE SubBorrow(_, _, _)
SubBorrow(a, b, c) ==
    IF a = <<>> THEN <<>>
    ELSE LET d == a[1] - (IF b = <<>> THEN 0 ELSE b[1]) - c
         IN  <<IF d < 0 THEN d + Limb ELSE d>>
             \o SubBorrow(Tail(a), IF b = <<>> THEN b ELSE Tail(b),
                          IF d < 0 THEN 1 ELSE 0)

BigSub(a, b) == Trim(SubBorrow(a, b, 0))

RECURSIVE CmpFrom(_, _, _)
CmpFrom(a, b, i) ==
    IF i = 0 THEN 0
    ELSE IF a[i] < b[i] THEN -1
    ELSE IF a[i] > b[i] THEN 1
    ELSE CmpFrom(a, b, i - 1)

\* -1, 0 or 1 as a < b, a = b or a > b
BigCmp(a, b) ==
    IF Len(a) < Len(b) THEN -1
    ELSE IF Len(a) > Len(b) THEN 1
    ELSE CmpFrom(a, b, Len(a))

\* a * c + k for a small c
RECURSIVE MulCarry(_, _, _)
MulCarry(a, c, k) ==
    IF a = <<>> THEN BigOf(k)
    ELSE LET p == a[1] * c + k
         IN  <<p % Limb>> \o MulCarry(Tail(a), c, p \div Limb)

BigMul(a, c) == Trim(MulCarry(a, c, 0))

\* quotient and remainder of a by the small number d
DivSmall(a, d) ==
    LET RECURSIVE go(_, _)
        go(i, r) ==
            IF i = 0 THEN [q |-> <<>>, r |-> r]
            ELSE LET cur  == r * Limb + a[i]
                     rest == go(i - 1, cur % d)
                 IN  [q |-> Append(rest.q, cur \div d), r |-> rest.r]
        res == go(Len(a), 0)
    IN  [q |-> Trim(res.q), r |-> BigOf(res.r)]

\* quotient and remainder of a by any b > 0, a limb of the quotient at a time
DivBig(a, b) ==
    LET RECURSIVE digit(_, _, _)
        digit(r, lo, hi) ==
            IF lo = hi THEN lo
            ELSE LET mid == (lo + hi + 1) \div 2
                 IN  IF BigCmp(BigMul(b, mid), r) <= 0
                     THEN digit(r, mid, hi) ELSE digit(r, lo, mid - 1)
        RECURSIVE go(_, _)
        go(i, r) ==
            IF i = 0 THEN [q |-> <<>>, r |-> r]
            ELSE LET cur  == Trim(<<a[i]>> \o r)
                     t    == digit(cur, 0, Limb - 1)
                     rest == go(i - 1, BigSub(cur, BigMul(b, t)))
                 IN  [q |-> Append(rest.q, t), r |-> rest.r]
        res == go(Len(a), <<>>)
    IN  [q |-> Trim(res.q), r |-> res.r]

BigDiv(a, b) == IF Len(b) <= 2 THEN DivSmall(a, IntOf(b)) ELSE DivBig(a, b)

RECURSIVE Bits(_)
Bits(n) == IF n = 0 THEN 0 ELSE 1 + Bits(n \div 2)

BitLen(a) == IF a = <<>> THEN 0 ELSE (Len(a) - 1) * LimbBits + Bits(a[Len(a)])

\* a * 2^k
Shl(a, k) ==
    IF a = <<>> THEN <<>>
    ELSE [i \in 1..(k \div LimbBits) |-> 0] \o MulCarry(a, 2^(k % LimbBits), 0)

\* floor(a / 2^k)
Shr(a, k) ==
    IF k \div LimbBits >= Len(a) THEN <<>>
    ELSE DivSmall(SubSeq(a, k \div LimbBits + 1, Len(a)), 2^(k % LimbBits)).q

\* a / 2^k to the nearest whole number, ties to even; sticky says that a
\* stands for a value slightly above a
\* where c says how what was cut off from q compares with one half
TiesToEven(q, c, sticky) ==
    IF c > 0 \/ (c = 0 /\ (sticky \/ (q # <<>> /\ q[1] % 2 = 1)))
    THEN BigAdd(q, <<1>>) ELSE q

\* where q is floor(a / 2^k)
RoundShifted(a, k, sticky, q) ==
    TiesToEven(q, BigCmp(BigSub(a, Shl(q, k)), Shl(<<1>>, k - 1)), sticky)

ShrNearestEven(a, k, sticky) == RoundShifted(a, k, sticky, Shr(a, k))

RECURSIVE TrailingZeros(_)
TrailingZeros(n) == IF n % 2 = 1 THEN 0 ELSE 1 + TrailingZeros(n \div 2)

DNaN == [nan |-> TRUE, neg |-> FALSE, m |-> <<>>, e |-> 0]
DZero == [nan |-> FALSE, neg |-> FALSE, m |-> <<>>, e |-> 0]

\* the double (-1)^neg * M * 2^e, for M of at most 53 bits
RECURSIVE Double(_, _, _)
Double(neg, M, e) ==
    IF M = <<>> THEN DZero
    ELSE IF M[1] = 0 THEN Double(neg, Tail(M), e + LimbBits)
    ELSE LET t == TrailingZeros(M[1])
         IN  [nan |-> FALSE, neg |-> neg,
              m |-> IF t = 0 THEN M ELSE DivSmall(M, 2^t).q, e |-> e + t]

\* the double nearest to (-1)^neg * M * 2^e (plus a little, when sticky; M
\* then has more than 53 bits), ties to even
\* where k is the number of bits M has beyond 53
NearestBy(neg, M, e, sticky, k) ==
    Double(neg, IF k <= 0 THEN M ELSE ShrNearestEven(M, k, sticky),
           IF k <= 0 THEN e ELSE e + k)

Nearest(neg, M, e, sticky) == NearestBy(neg, M, e, sticky, BitLen(M) - MantissaBits)

\* float(n) for an integer n
DInt(n) == Double(n < 0, BigOf(IF n < 0 THEN -n ELSE n), 0)

DNeg(x) == IF x.nan \/ x.m = <<>> THEN x ELSE [x EXCEPT !.neg = ~x.neg]

\* X * 2^e plus Y * 2^e with the signs xneg and yneg; c compares X with Y
Sum(xneg, yneg, X, Y, e, c) ==
    Nearest(IF xneg = yneg \/ c > 0 THEN xneg ELSE yneg,
            IF xneg = yneg THEN BigAdd(X, Y)
            ELSE IF c > 0 THEN BigSub(X, Y) ELSE BigSub(Y, X),
            e, FALSE)

Aligned(xneg, yneg, X, Y, e) == Sum(xneg, yneg, X, Y, e, BigCmp(X, Y))

\* x + y
DAdd(x, y) ==
    IF x.nan \/ y.nan THEN DNaN
    ELSE IF x.m = <<>> THEN y
    ELSE IF y.m = <<>> THEN x
    ELSE Aligned(x.neg, y.neg, Shl(x.m, x.e - Min(x.e, y.e)),
                 Shl(y.m, y.e - Min(x.e, y.e)), Min(x.e, y.e))

\* x - y
DSub(x, y) == DAdd(x, DNeg(y))

\* x * c for a small whole number c > 0
DMul(x, c) ==
    IF x.nan THEN DNaN ELSE Nearest(x.neg, BigMul(x.m, c), x.e, FALSE)

\* the double of the quotient d.q * 2^e, d.r being the remainder
Quotient(neg, d, e) == Nearest(neg, d.q, e, d.r # <<>>)

\* x / y with the mantissa of x shifted up by k bits
Scaled(x, y, k) == Quotient(x.neg # y.neg, BigDiv(Shl(x.m, k), y.m), x.e - y.e - k)

\* x / y for y other than 0: the quotient of the mantissas to 55 bits or
\* more, the remainder as the sticky bit
DDiv(x, y) ==
    IF x.nan \/ y.nan THEN DNaN
    ELSE IF x.m = <<>> THEN DZero
    ELSE Scaled(x, y, MantissaBits + 2 + BitLen(y.m) - BitLen(x.m))

Signed(neg, n) == IF neg THEN -n ELSE n

\* N * 2^e to the nearest whole number, ties to even
NearbyWhole(N, e) ==
    IF e >= 0 THEN IntOf(Shl(N, e)) ELSE IntOf(ShrNearestEven(N, -e, FALSE))

\* x * p to the nearest whole number, by the exact value of the double x,
\* ties to even: round(x, 0) and '%.0f' for p = 1, round(x, 1) and '%.1f'
\* in tenths for p = 10
Nearby(x, p) == Signed(x.neg, NearbyWhole(BigMul(x.m, p), x.e))

\* DataFrame.head(n): the first n rows; for negative n all but the last -n
head(df, n) ==
    LET len == Len(df.data)
        keep == IF n >= 0 THEN Min(n, len) ELSE Max(len + n, 0)
    IN  [df EXCEPT !.data = SubSeq(df.data, 1, keep)]

Json(obj) == [format |-> "json", value |-> obj]
TextContent(text) == [type |-> "text", text |-> text]

\* free text, kept as the values it is formatted from
ReportText(sections) == [format |-> "text", report |-> TRUE, sections |-> sections]

\* faulty variant: the message without its prefix
ErrorTextBare(prefix, msg) == [format |-> "text", report |-> FALSE, message |-> msg]

\* the text a report handler returns for a failure
ErrorText(prefix, msg) == [format |-> "text", report |-> FALSE, message |-> prefix \o msg]

Returned(v) == [kind |-> "return", value |-> v]
Raised(exc, msg) == [kind |-> "raise", exc |-> exc, msg |-> msg]

\* faulty variant: the message of the failure is replaced by a fixed text
ErrorResponseGeneric(msg) ==
    Returned(<<TextContent(Json([success |-> FALSE, error |-> "Query failed"]))>>)

\* faulty variant: the message under another key
ErrorResponseNoError(msg) ==
    Returned(<<TextContent(Json([success |-> FALSE, message |-> msg]))>>)

\* the reply every handler gives for a failure it reports
ErrorResponse(msg) ==
    Returned(<<TextContent(Json([success |-> FALSE, error |-> msg]))>>)

\* one request to the warehouse client, as logged: which method, on what,
\* and what it did (Ok with the data returned, or Err with the message raised)
Request(api, target, outcome) ==
    [api |-> api, target |-> target, outcome |-> outcome]

Ok(payload) == [raise |-> FALSE, payload |-> payload]
Err(msg) == [raise |-> TRUE, msg |-> msg]

\* what a handler produced: the requests it issued and how the call ended
Done(requests, result) == [requests |-> requests, result |-> result]

NoCall == [op |-> "none"]

----------------------------------------------------------------------------
(* core/bq_client.py *)

\* faulty variant: a client is built on every call
get_client_fresh(c, n, ok) ==
    IF ok
    THEN [raise |-> FALSE, client |-> "Client", constructions |-> n + 1]
    ELSE [raise |-> TRUE, client |-> c, constructions |-> n]

\* get_client(): c is _client before the call, ok says whether
\* bigquery.Client() succeeds if it has to be built
get_client(c, n, ok) ==
    IF c = NoneStr
    THEN IF ok
         THEN [raise |-> FALSE, client |-> "Client", constructions |-> n + 1]
         ELSE [raise |-> TRUE, client |-> c, constructions |-> n]
    ELSE [raise |-> FALSE, client |-> c, constructions |-> n]

----------------------------------------------------------------------------
(* domains/_0_general_analysis/tools.py *)

DataFrames(cols, sizes) ==
    { [columns |-> cols, data |-> [i \in 1..r |-> i]] : r \in sizes }

TableNames == <<"t1", "t2", "t3", "t4">>
TableLists == { SubSeq(TableNames, 1, k) : k \in 0..MaxTables }

\* faulty variant: a failed listing is attempted a second time
_list_tables_retry(arguments, out) ==
    LET dataset == Get(arguments, "dataset", NoneStr) IN
    IF Falsy(dataset)
    THEN Done(<<>>, ErrorResponse("dataset is required"))
    ELSE LET req == <<Request("list_tables", dataset, out)>> IN
         IF out.raise
         THEN Done(req \o req, ErrorResponse(out.msg))
         ELSE Done(req, Returned(<<TextContent(Json(
                  [success |-> TRUE,
                   dataset |-> dataset,
                   tables  |-> out.payload,
                   count   |-> Len(out.payload)]))>>))

_list_tables(arguments, out) ==
    LET dataset == Get(arguments, "dataset", NoneStr) IN
    IF Falsy(dataset)
    THEN Done(<<>>, ErrorResponse("dataset is required"))
    ELSE LET req == <<Request("list_tables", dataset, out)>> IN
         IF out.raise
         THEN Done(req, ErrorResponse(out.msg))
         ELSE Done(req, Returned(<<TextContent(Json(
                  [success |-> TRUE,
                   dataset |-> dataset,
                   tables  |-> out.payload,
                   count   |-> Len(out.payload)]))>>))

ListTablesArgs == {<<>>} \cup { [dataset |-> d] : d \in {NoneStr, "", "ds"} }
ListTablesOutcomes == { Err(m) : m \in Msgs } \cup { Ok(ts) : ts \in TableLists }

(* describe_table *)

\* the schema of a table with n columns; the first two are the columns of
\* the documented example
Field(i) ==
    IF i = 1 THEN [name |-> "id", field_type |-> "INTEGER", mode |-> "REQUIRED"]
    ELSE IF i = 2 THEN [name |-> "name", field_type |-> "STRING", mode |-> "NULLABLE"]
    ELSE [name |-> "c" \o ToString(i), field_type |-> "FLOAT", mode |-> "NULLABLE"]

Schema(n) == [i \in 1..n |-> Field(i)]

\* 1 null in 2000 rows is 0.05 per cent, halfway between two tenths
RowCounts == {0, 3, 7, 42, 2000}

TableRef(n, rows) == [schema |-> Schema(n), num_rows |-> rows]

TableArgs == {<<>>} \cup { [table |-> t] : t \in {NoneStr, "", "p.d.t"} }

_describe_table(arguments, out) ==
    LET table == Get(arguments, "table", NoneStr) IN
    IF Falsy(table)
    THEN Done(<<>>, ErrorResponse("table is required"))
    ELSE LET req == <<Request("get_table", table, out)>> IN
         IF out.raise
         THEN Done(req, ErrorResponse(out.msg))
         ELSE LET table_ref == out.payload
                  schema == [i \in 1..Len(table_ref.schema) |->
                                [name |-> table_ref.schema[i].name,
                                 type |-> table_ref.schema[i].field_type,
                                 mode |-> table_ref.schema[i].mode]]
              IN  Done(req, Returned(<<TextContent(Json(
                      [success   |-> TRUE,
                       table     |-> table,
                       row_count |-> table_ref.num_rows,
                       columns   |-> schema]))>>))

DescribeOutcomes ==
    { Err(m) : m \in Msgs } \cup
    { Ok(TableRef(n, r)) : n \in 0..MaxSmallCols, r \in RowCounts }

(* sample_table *)

SampleArgs ==
    TableArgs \cup { [table |-> t, rows |-> 2] : t \in {"", "p.d.t"} }

SmallSizes == 0..MaxSmallRows

QueryColumns == <<"a", "b">>

_sample_table(arguments, out) ==
    LET table == Get(arguments, "table", NoneStr)
        rows  == Get(arguments, "rows", 5)
    IN
    IF Falsy(table)
    THEN Done(<<>>, ErrorResponse("table is required"))
    ELSE LET req == <<Request("query", table, out)>> IN
         IF out.raise
         THEN Done(req, ErrorResponse(out.msg))
         ELSE LET df == out.payload IN
              Done(req, Returned(<<TextContent(Json(
                  [success     |-> TRUE,
                   table       |-> table,
                   sample_rows |-> rows,
                   columns     |-> df.columns,
                   data        |-> df.data]))>>))

SampleOutcomes ==
    { Err(m) : m \in Msgs } \cup
    { Ok(df) : df \in DataFrames(QueryColumns, SmallSizes) }

(* query_bigquery *)

DefaultQueryLimit == 100

QueryArgs ==
    {<<>>} \cup { [sql |-> q] : q \in {NoneStr, "", "SELECT 1"} }
    \cup { [limit |-> l] : l \in 0..MaxLimit }
    \cup { [sql |-> q, limit |-> l] : q \in {"", "SELECT 1"}, l \in 0..MaxLimit }

\* faulty variant: a result of exactly `limit` rows counts as truncated
TruncateInclusive(df, limit) ==
    IF Len(df.data) >= limit
    THEN [df |-> head(df, limit), truncated |-> TRUE]
    ELSE [df |-> df, truncated |-> FALSE]

\* the row-limit step shared by query_bigquery and query_table
Truncate(df, limit) ==
    IF Len(df.data) > limit
    THEN [df |-> head(df, limit), truncated |-> TRUE]
    ELSE [df |-> df, truncated |-> FALSE]

\* (" (truncated)" if truncated else "")
TruncatedNote(truncated) == IF truncated THEN " (truncated)" ELSE ""

\* faulty variant: the message names the parameter as the other tools do
SqlRequiredShort == "sql is required"

\* the message for a missing sql argument
SqlRequired == "sql query is required"

_query_bigquery(arguments, out) ==
    LET sql   == Get(arguments, "sql", NoneStr)
        limit == Get(arguments, "limit", DefaultQueryLimit)
    IN
    IF Falsy(sql)
    THEN Done(<<>>, ErrorResponse(SqlRequired))
    ELSE LET req == <<Request("query", sql, out)>> IN
         IF out.raise
         THEN Done(req, ErrorResponse(out.msg))
         ELSE LET t == Truncate(out.payload, limit) IN
              Done(req, Returned(<<TextContent(Json(
                  [success   |-> TRUE,
                   rows      |-> Len(t.df.data),
                   columns   |-> t.df.columns,
                   data      |-> t.df.data,
                   truncated |-> t.truncated,
                   message   |-> "Query returned " \o ToString(Len(t.df.data))
                                 \o " rows" \o TruncatedNote(t.truncated)]))>>))

\* result sizes: small ones, and the sizes around the default limit
QuerySizes ==
    SmallSizes \cup {DefaultQueryLimit - 1, DefaultQueryLimit, DefaultQueryLimit + 1}

QueryOutcomes ==
    { Err(m) : m \in Msgs } \cup
    { Ok(df) : df \in DataFrames(QueryColumns, QuerySizes) }

(* profile_table *)

ProfileCap == 20

\* faulty variant: the percentage is cut to one decimal, not rounded
NullPctFloor(null_count, row_count) ==
    IF row_count > 0 THEN (null_count * 1000) \div row_count ELSE 0

\* round(null_count / row_count * 100, 1), in tenths: two Python ints are
\* divided as floats, the quotient is multiplied by 100.0, and round() goes
\* by the exact value of the product
NullPct(null_count, row_count) ==
    IF row_count > 0
    THEN Nearby(DMul(DDiv(DInt(null_count), DInt(row_count)), 100), 10)
    ELSE 0

\* faulty variant: a failed column reports zeros
ColumnStatsZero(field, out, row_count) ==
    IF out.raise
    THEN [name |-> field.name, type |-> field.field_type,
          null_pct |-> 0, distinct_count |-> 0]
    ELSE [name |-> field.name, type |-> field.field_type,
          null_pct |-> NullPct(out.payload.null_count, row_count),
          distinct_count |-> out.payload.distinct_count]

\* the statistics of one column: out is what its statistics query does
ColumnStats(field, out, row_count) ==
    IF out.raise
    THEN [name |-> field.name, type |-> field.field_type,
          null_pct |-> NoneNum, distinct_count |-> NoneNum]
    ELSE [name |-> field.name, type |-> field.field_type,
          null_pct |-> NullPct(out.payload.null_count, row_count),
          distinct_count |-> out.payload.distinct_count]

\* faulty variant: no cap on the columns profiled
FirstColumnsAll(schema) == schema

\* table_ref.schema[:20]
FirstColumns(schema) == SubSeq(schema, 1, Min(ProfileCap, Len(schema)))

\* faulty variant: a statistics query that failed is sent a second time
ColumnQueriesRetry(fields, stats) ==
    LET RECURSIVE from(_)
        from(i) ==
            IF i > Len(fields) THEN <<>>
            ELSE LET q == Request("query", fields[i].name, stats[i])
                 IN  (IF stats[i].raise THEN <<q, q>> ELSE <<q>>) \o from(i + 1)
    IN  from(1)

\* the loop over the columns: one statistics query for each, in order
ColumnQueries(fields, stats) ==
    [i \in 1..Len(fields) |-> Request("query", fields[i].name, stats[i])]

_profile_table(arguments, out) ==
    LET table == Get(arguments, "table", NoneStr) IN
    IF Falsy(table)
    THEN Done(<<>>, ErrorResponse("table is required"))
    ELSE LET first == <<Request("get_table", table, out.table)>> IN
         IF out.table.raise
         THEN Done(first, ErrorResponse(out.table.msg))
         ELSE LET table_ref == out.table.payload
                  row_count == table_ref.num_rows
                  fields    == FirstColumns(table_ref.schema)
                  columns   == [i \in 1..Len(fields) |->
                                   ColumnStats(fields[i], out.stats[i], row_count)]
                  queries   == ColumnQueries(fields, out.stats)
              IN  Done(first \o queries, Returned(<<TextContent(Json(
                      [success          |-> TRUE,
                       table            |-> table,
                       row_count        |-> row_count,
                       column_count     |-> Len(table_ref.schema),
                       columns_profiled |-> Len(columns),
                       profile          |-> columns]))>>))

\* what one statistics query does
StatOutcomes ==
    { Err(m) : m \in {"Access Denied"} } \cup
    { Ok([null_count |-> nc, distinct_count |-> dc]) : nc \in 0..MaxNulls, dc \in {0, 2} }

\* tables around the column cap: every statistics query answers the same,
\* except the ones in a failing set
WideSizes == {ProfileCap - 1, ProfileCap, ProfileCap + 1}
WideStats(n, failing) ==
    [i \in 1..n |-> IF i \in failing THEN Err("Access Denied")
                    ELSE Ok([null_count |-> 1, distinct_count |-> 2])]
WideFailing(n) == { {}, {1}, {ProfileCap}, {n}, 1..n }

ProfileOutcomes ==
    { [table |-> Err(m), stats |-> <<>>] : m \in Msgs }
    \cup UNION { { [table |-> Ok(TableRef(n, r)), stats |-> st] :
                       r \in RowCounts \ {42}, st \in [1..n -> StatOutcomes] } :
                     n \in 0..MaxSmallCols }
    \cup UNION { { [table |-> Ok(TableRef(n, 7)), stats |-> WideStats(n, f)] :
                       f \in WideFailing(n) } : n \in WideSizes }

----------------------------------------------------------------------------
(* domains/_0_general_analysis/tools.py: call_tool *)

AnalysisDispatch(name, arguments, out) ==
    IF name = "list_tables" THEN _list_tables(arguments, out)
    ELSE IF name = "describe_table" THEN _describe_table(arguments, out)
    ELSE IF name = "sample_table" THEN _sample_table(arguments, out)
    ELSE IF name = "query_bigquery" THEN _query_bigquery(arguments, out)
    ELSE IF name = "profile_table" THEN _profile_table(arguments, out)
    ELSE Done(<<>>, Raised("ValueError", "Unknown analysis tool: " \o name))

\* a finished call_tool, as the model records it
ToolCall(module, name, arguments, client_ok, d) ==
    [op |-> "call_tool", module |-> module, name |-> name,
     arguments |-> arguments, client_ok |-> client_ok,
     requests |-> d.requests, result |-> d.result]

\* faulty variant: a failed construction is reported as a failure reply
after_get_client_caught(g, d) ==
    IF g.raise THEN Done(<<>>, ErrorResponse(ClientMsg)) ELSE d

\* client = get_client() as the first statement of call_tool, outside any
\* try: when it raises, nothing of the rest (d) happens
after_get_client(g, d) ==
    IF g.raise THEN Done(<<>>, Raised("ClientError", ClientMsg)) ELSE d

\* call_tool(name, arguments): the client is acquired first, then the
\* handler of the tool runs
AnalysisCall(name, arguments, out) ==
    /\ \E ok \in BOOLEAN :
          LET g == get_client(_client, constructions, ok)
              d == after_get_client(g, AnalysisDispatch(name, arguments, out))
          IN  /\ _client' = g.client
              /\ constructions' = g.constructions
              /\ call' = ToolCall("analysis", name, arguments, ~g.raise, d)
    /\ pc' = "done"
    /\ UNCHANGED <<program, csvVars, batchVars>>

list_tables ==
    /\ program = "server" /\ pc = "idle"
    /\ \E a \in ListTablesArgs, o \in ListTablesOutcomes :
        AnalysisCall("list_tables", a, o)

describe_table ==
    /\ program = "server" /\ pc = "idle"
    /\ \E a \in TableArgs, o \in DescribeOutcomes :
        AnalysisCall("describe_table", a, o)

sample_table ==
    /\ program = "server" /\ pc = "idle"
    /\ \E a \in SampleArgs, o \in SampleOutcomes :
        AnalysisCall("sample_table", a, o)

query_bigquery ==
    /\ program = "server" /\ pc = "idle"
    /\ \E a \in QueryArgs, o \in QueryOutcomes :
        AnalysisCall("query_bigquery", a, o)

profile_table ==
    /\ program = "server" /\ pc = "idle"
    /\ \E a \in TableArgs, o \in ProfileOutcomes :
        AnalysisCall("profile_table", a, o)

UnknownToolNames == {"drop_table", "forecast_mrr"}

analysis_unknown_tool ==
    /\ program = "server" /\ pc = "idle"
    /\ \E n \in UnknownToolNames, a \in TableArgs :
        AnalysisCall(n, a, Err("Not found: Table"))

----------------------------------------------------------------------------
(* main.py: the CSV variant *)

DefaultTableLimit == 1000

CsvColumns == <<"region", "sales", "benchmark">>

\* row i of sales_data.csv
CsvRow(i) ==
    [region    |-> IF i % 2 = 1 THEN "North" ELSE "South",
     sales     |-> 10 + i,
     benchmark |-> 10]

CsvFrame(r) == [columns |-> CsvColumns, data |-> [i \in 1..r |-> CsvRow(i)]]

\* sizes of the loaded table: small ones, and the sizes around the default limit
CsvSizes == {0, MaxSmallRows - 1, DefaultTableLimit, DefaultTableLimit + 1}

\* str(dtype) of each column as read_csv infers it: a column of whole numbers
\* is int64, a column of text, or one without any value, is object
dtypes(r) ==
    [region    |-> "object",
     sales     |-> IF r = 0 THEN "object" ELSE "int64",
     benchmark |-> IF r = 0 THEN "object" ELSE "int64"]

\* load_csv_data(): sales_data.csv is found and read into the cache, or it is
\* missing (or unreadable) and the cache stays empty
load_csv_data ==
    { [dataframes |-> <<>>, csv_info |-> <<>>] } \cup
    { [dataframes |-> [sales_data |-> CsvFrame(r)],
       csv_info   |-> [sales_data |-> [file |-> "sales_data.csv",
                                       columns |-> CsvColumns,
                                       row_count |-> r,
                                       dtypes |-> dtypes(r)]]] :
        r \in CsvSizes }

Range(seq) == { seq[i] : i \in 1..Len(seq) }

\* [col for col in columns if col in df.columns]
RECURSIVE available_cols(_, _)
available_cols(columns, df) ==
    IF columns = <<>> THEN <<>>
    ELSE LET rest == available_cols(Tail(columns), df) IN
         IF Head(columns) \in Range(df.columns)
         THEN <<Head(columns)>> \o rest
         ELSE rest

\* df[cols]
Select(df, cols) ==
    [columns |-> cols,
     data    |-> [i \in 1..Len(df.data) |-> [c \in Range(cols) |-> df.data[i][c]]]]

ColumnLists ==
    {<<>>, <<"region">>, <<"sales", "region">>, <<"bogus">>, <<"bogus", "sales">>}

QueryTableArgs ==
    LET names  == { [table_name |-> t] : t \in {"", "sales_data", "other"} } \cup {<<>>}
        limits == { [limit |-> l] : l \in 0..MaxLimit } \cup {<<>>}
        cols   == { [columns |-> c] : c \in ColumnLists } \cup {<<>>}
    IN  { n @@ l @@ c : n \in names, l \in limits, c \in cols }

\* the query_table branch of call_tool; frames is the cache
query_table_branch(arguments, frames) ==
    LET table_name == Get(arguments, "table_name", NoneStr)
        limit      == Get(arguments, "limit", DefaultTableLimit)
        columns    == Get(arguments, "columns", <<>>)   \* None and [] are both falsy
    IN
    IF Falsy(table_name)
    THEN Done(<<>>, ErrorResponse("table_name is required"))
    ELSE IF DOMAIN frames = {}
    THEN Done(<<>>, ErrorResponse("No CSV data loaded"))
    ELSE IF table_name \notin DOMAIN frames
    THEN Done(<<>>, Returned(<<TextContent(Json(
             [success |-> FALSE,
              error |-> "Table '" \o table_name \o "' not found",
              available_tables |-> DOMAIN frames]))>>))
    ELSE LET copy  == frames[table_name]
             avail == available_cols(columns, copy)
         IN
         IF columns # <<>> /\ avail = <<>>
         THEN Done(<<>>, Returned(<<TextContent(Json(
                  [success |-> FALSE,
                   error |-> "None of the requested columns exist",
                   available_columns |-> frames[table_name].columns]))>>))
         ELSE LET df == IF columns # <<>> THEN Select(copy, avail) ELSE copy
                  t  == Truncate(df, limit)
              IN  Done(<<>>, Returned(<<TextContent(Json(
                      [success    |-> TRUE,
                       table_name |-> table_name,
                       rows       |-> Len(t.df.data),
                       columns    |-> t.df.columns,
                       data       |-> t.df.data,
                       truncated  |-> t.truncated,
                       message    |-> "Returned " \o ToString(Len(t.df.data))
                                      \o " rows" \o TruncatedNote(t.truncated)]))>>))

----------------------------------------------------------------------------
(* main.py: generate_report *)

DefaultSender == "your-email@gmail.com"
DefaultRecipient == "your-email@gmail.com"
SMTP_SERVER == "smtp.gmail.com"

\* the environment the process may be started in
Senders == {DefaultSender, "da@example.com"}
Passwords == {"", "app-password"}
Recipients == {DefaultRecipient, "boss@example.com"}

\* what the SMTP session (connect, starttls, login, send_message) does
SmtpOutcomes ==
    { Ok("sent"), Err("Username and Password not accepted"), Err("Connection refused") }

\* analyze_sales_data on a frame without rows raises; which step raises, and
\* so the message, depends on the dtypes pandas gave the empty columns
EmptyFrameMsgs == {"division by zero", IndexErrorMsg}

GenerateReportArgs ==
    LET names == { [table_name |-> t] : t \in {"", "sales_data", "other"} } \cup {<<>>}
        sends == { [send_email |-> b] : b \in BOOLEAN } \cup {<<>>}
    IN  { n @@ e : n \in names, e \in sends }

\* df.groupby('region')[col].sum() for one region, over rows lo..hi
RECURSIVE SumRegion(_, _, _, _, _)
SumRegion(data, region, col, lo, hi) ==
    IF lo > hi THEN 0
    ELSE IF lo = hi
    THEN IF data[lo].region = region THEN data[lo][col] ELSE 0
    ELSE LET mid == (lo + hi) \div 2
         IN  SumRegion(data, region, col, lo, mid)
             + SumRegion(data, region, col, mid + 1, hi)

\* ((sales - benchmark) / benchmark * 100).round(1), in tenths, benchmark > 0:
\* numpy's round multiplies by 10.0 and takes rint() of that product
performance_pct(sales, benchmark) ==
    Nearby(DMul(DMul(DDiv(DInt(sales - benchmark), DInt(benchmark)), 100), 10), 1)

\* the region keys, in the order groupby sorts them
RegionKeys == <<"North", "South">>

\* sort_values('performance_pct', ascending=False), ties in their given order
RECURSIVE InsertByPerformance(_, _)
InsertByPerformance(row, sorted) ==
    IF sorted = <<>> THEN <<row>>
    ELSE IF Head(sorted).performance_pct >= row.performance_pct
         THEN <<Head(sorted)>> \o InsertByPerformance(row, Tail(sorted))
         ELSE <<row>> \o sorted

RECURSIVE SortByPerformance(_)
SortByPerformance(rows) ==
    IF rows = <<>> THEN <<>>
    ELSE InsertByPerformance(rows[Len(rows)],
                             SortByPerformance(SubSeq(rows, 1, Len(rows) - 1)))

Abs(x) == IF x < 0 THEN -x ELSE x

\* the sum of one field over some rows
RECURSIVE SumField(_, _)
SumField(rows, col) ==
    IF rows = <<>> THEN 0 ELSE Head(rows)[col] + SumField(Tail(rows), col)

RegionPresent(df, k) == \E i \in 1..Len(df.data) : df.data[i].region = k

\* one row of the regional frame
RegionRow(region, sales, benchmark, pct) ==
    [region          |-> region,
     sales           |-> sales,
     benchmark       |-> benchmark,
     performance_pct |-> pct,
     status          |-> IF pct >= 0 THEN "Above" ELSE "Below"]

\* df.groupby('region').agg(sum) with the performance_pct and status columns
GroupByRegion(df) ==
    LET n == Len(df.data)
        present == SelectSeq(RegionKeys, LAMBDA k : RegionPresent(df, k))
    IN  [g \in 1..Len(present) |->
            RegionRow(present[g],
                      SumRegion(df.data, present[g], "sales", 1, n),
                      SumRegion(df.data, present[g], "benchmark", 1, n),
                      performance_pct(SumRegion(df.data, present[g], "sales", 1, n),
                                      SumRegion(df.data, present[g], "benchmark", 1, n)))]

\* the recommendations: for the worst region, for the best one, and the
\* standing one
Recommendations(best, worst) ==
    LET first == IF worst.performance_pct < -50
                 THEN << [kind |-> "Urgent", region |-> worst.region,
                          pct |-> Abs(worst.performance_pct)] >>
                 ELSE IF worst.performance_pct < 0
                 THEN << [kind |-> "Monitor", region |-> worst.region,
                          pct |-> worst.performance_pct] >>
                 ELSE <<>>
        second == IF best.performance_pct > 100
                  THEN << [kind |-> "Replicate", region |-> best.region,
                           pct |-> best.performance_pct] >>
                  ELSE <<>>
    IN  first \o second \o << [kind |-> "Review", region |-> NoneStr, pct |-> 0] >>

\* the analysis of the sorted regional frame, best region first
Analysis(regional, best, worst, overall_pct) ==
    [summary |-> [overall   |-> IF overall_pct >= 0 THEN "above" ELSE "below",
                  by        |-> Abs(overall_pct),
                  leads     |-> best.region,
                  leads_pct |-> best.performance_pct,
                  needs_attention     |-> worst.region,
                  needs_attention_pct |-> worst.performance_pct],
     regional_performance |-> regional,
     recommendations |-> Recommendations(best, worst)]

Summarise(regional) ==
    Analysis(regional, regional[1], regional[Len(regional)],
             performance_pct(SumField(regional, "sales"),
                             SumField(regional, "benchmark")))

\* analyze_sales_data(df), for a frame with rows and positive benchmarks;
\* generated_at (the clock) is left out
analyze_sales_data(df) == Summarise(SortByPerformance(GroupByRegion(df)))

\* faulty variant: the SMTP session is opened without looking at the settings
send_email_report_unchecked(sender, password, recipient, smtp) ==
    [status  |-> IF smtp.raise
                 THEN "Email failed: " \o smtp.msg
                 ELSE "Email sent to " \o recipient,
     session |-> <<Request("smtp", SMTP_SERVER, smtp)>>]

\* send_email_report(html_content): the status text, and the SMTP session if
\* one was opened (the pictograph that starts each status is left out)
send_email_report(sender, password, recipient, smtp) ==
    IF password = "" \/ sender = DefaultSender
    THEN [status |-> "Email not configured (see setup instructions)", session |-> <<>>]
    ELSE [status  |-> IF smtp.raise
                      THEN "Email failed: " \o smtp.msg
                      ELSE "Email sent to " \o recipient,
          session |-> <<Request("smtp", SMTP_SERVER, smtp)>>]

\* generate_report once the analysis is made: the e-mail, then the report
sales_report(analysis, email) ==
    Done(email.session, Returned(<<TextContent(ReportText(
        [title |-> "WEEKLY SALES REPORT",
         summary |-> analysis.summary,
         regional_performance |-> analysis.regional_performance,
         recommendations |-> analysis.recommendations,
         email_status |-> email.status]))>>))

\* the generate_report branch of call_tool; frames is the cache, env the
\* e-mail settings of the process, the message an empty frame fails with and
\* what an SMTP session does
generate_report_branch(arguments, frames, env) ==
    LET table_name == Get(arguments, "table_name", "sales_data")
        send_email == Get(arguments, "send_email", FALSE)
    IN
    IF table_name \notin DOMAIN frames
    THEN Done(<<>>, ErrorResponse("Table '" \o table_name \o "' not found"))
    ELSE IF frames[table_name].data = <<>>
    THEN Done(<<>>, ErrorResponse(env.empty_msg))
    ELSE sales_report(analyze_sales_data(frames[table_name]),
                      IF send_email
                      THEN send_email_report(env.sender, env.password, env.recipient,
                                             env.smtp)
                      ELSE [status |-> NoneStr, session |-> <<>>])

\* inputs the query_table branch does not use
NoEnv == [sender |-> DefaultSender, password |-> "", recipient |-> DefaultRecipient,
          empty_msg |-> "", smtp |-> Ok("sent")]

CsvDispatch(name, arguments, frames, env) ==
    IF name = "query_table" THEN query_table_branch(arguments, frames)
    ELSE IF name = "generate_report" THEN generate_report_branch(arguments, frames, env)
    ELSE Done(<<>>, Raised("ValueError", "Unknown tool: " \o name))

\* faulty variant: query_table stores the rows it returns back into the cache
dataframes_stored(name, arguments, frames) ==
    LET table_name == Get(arguments, "table_name", NoneStr) IN
    IF name = "query_table" /\ table_name \in DOMAIN frames
    THEN [frames EXCEPT ![table_name] =
             Truncate(frames[table_name], Get(arguments, "limit", DefaultTableLimit)).df]
    ELSE frames

\* the cache after a call: query_table works on dataframes[table_name].copy()
\* and rebinds its local df, analyze_sales_data builds new frames with
\* groupby; nothing is assigned to dataframes or to a frame in it
dataframes_after(name, arguments, frames) == frames

CsvCall(name, arguments, env) ==
    /\ call' = ToolCall("main", name, arguments, TRUE,
                        CsvDispatch(name, arguments, dataframes, env))
    /\ dataframes' = dataframes_after(name, arguments, dataframes)
    /\ pc' = "done"
    /\ UNCHANGED <<program, _client, constructions, csv_info, DATA_DIR,
                   EMAIL_SENDER, EMAIL_PASSWORD, EMAIL_RECIPIENT, batchVars>>

query_table ==
    /\ program = "csv" /\ pc = "idle"
    /\ \E a \in QueryTableArgs : CsvCall("query_table", a, NoEnv)

generate_report ==
    /\ program = "csv" /\ pc = "idle"
    /\ \E a \in GenerateReportArgs, m \in EmptyFrameMsgs, o \in SmtpOutcomes :
          CsvCall("generate_report", a,
                  [sender |-> EMAIL_SENDER, password |-> EMAIL_PASSWORD,
                   recipient |-> EMAIL_RECIPIENT,
                   empty_msg |-> m, smtp |-> o])

csv_unknown_tool ==
    /\ program = "csv" /\ pc = "idle"
    /\ \E n \in UnknownToolNames : CsvCall(n, <<>>, NoEnv)

----------------------------------------------------------------------------
(* Floating-point columns.  The value of a cell, and every rounded result, *)
(* is NaN or a number of twelfths; what is computed from the cells is a     *)
(* double.                                                                  *)

Unit == 3 * 4

Num(x) == [nan |-> FALSE, x |-> x]          \* x twelfths
Whole(n) == Num(n * Unit)
NaN == [nan |-> TRUE, x |-> 0]

\* float(v) of a cell
float(f) ==
    IF f.nan THEN DNaN
    ELSE IF f.x % Unit = 0 THEN DInt(f.x \div Unit)
    ELSE DDiv(DInt(f.x), DInt(Unit))

\* one decimal place: a number of tenths, or NaN
Tenths(t) == [nan |-> FALSE, tenths |-> t]
NaNTenths == [nan |-> TRUE, tenths |-> 0]

\* round(f, 0) of a double
round0(f) == IF f.nan THEN NaN ELSE Whole(Nearby(f, 1))

\* round(f, 1) of a double, and the same digits as '%.1f' prints
round1(f) == IF f.nan THEN NaNTenths ELSE Tenths(Nearby(f, 10))

\* faulty variant: missing values are left as they are
fillna0_keep(f) == f

\* Series.fillna(0), one value
fillna0(f) == IF f.nan THEN Whole(0) ELSE f

\* faulty variant: the whole series
tail_all(seq, n) == seq

\* Series.tail(n)
tail(seq, n) == SubSeq(seq, Max(Len(seq) - n, 0) + 1, Len(seq))

\* the sum of the values that are not missing, added up from the first
RECURSIVE SumNotNaN(_, _)
SumNotNaN(seq, acc) ==
    IF seq = <<>> THEN acc
    ELSE SumNotNaN(Tail(seq),
                   IF Head(seq).nan THEN acc ELSE DAdd(acc, float(Head(seq))))

CountNotNaN(seq) == Cardinality({ i \in 1..Len(seq) : ~seq[i].nan })

\* Series.mean(): missing values are skipped; NaN when nothing is left
mean(seq) ==
    IF CountNotNaN(seq) = 0 THEN DNaN
    ELSE DDiv(SumNotNaN(seq, DZero), DInt(CountNotNaN(seq)))

Column(rows, c) == [i \in 1..Len(rows) |-> rows[i][c]]

\* df.sort_values('week'): insertion sort on the week, stable
RECURSIVE Insert(_, _)
Insert(row, sorted) ==
    IF sorted = <<>> THEN <<row>>
    ELSE IF Head(sorted).week <= row.week
         THEN <<Head(sorted)>> \o Insert(row, Tail(sorted))
         ELSE <<row>> \o sorted

RECURSIVE sort_values(_)
sort_values(rows) ==
    IF rows = <<>> THEN <<>>
    ELSE Insert(rows[Len(rows)], sort_values(SubSeq(rows, 1, Len(rows) - 1)))

----------------------------------------------------------------------------
(* The weekly view v_model_3_levers, as the queries return it *)

TrendWindow == 4

MrrVals == {0, 8}
ChangeVals == {-2, 4}

\* one week of the view: the revenue columns, and the lever columns the
\* reports read
MetricsRow(w, total, change, lag) ==
    [week |-> w, total_mrr |-> Whole(total), mrr_change |-> change, mrr_lag1 |-> lag,
     win_rate_pct |-> Whole(12), at_risk_pct |-> Whole(20), at_risk_deals |-> Whole(3)]

\* the first week returned has no week before it: its delta may be missing,
\* and its lag is
FirstRows ==
    { MetricsRow(1, t, c, NaN) :
        t \in MrrVals, c \in {NaN} \cup { Whole(d) : d \in ChangeVals } }

\* every later week moves the revenue by its delta; revenue is never negative
RECURSIVE SeriesOfLen(_)
SeriesOfLen(n) ==
    IF n = 0 THEN { <<>> }
    ELSE IF n = 1 THEN { <<r>> : r \in FirstRows }
    ELSE { Append(s, MetricsRow(n, (s[n - 1].total_mrr.x \div Unit) + d, Whole(d),
                                s[n - 1].total_mrr)) :
             s \in SeriesOfLen(n - 1),
             d \in ChangeVals }

NonNegative(s) == \A i \in 1..Len(s) : s[i].total_mrr.x >= 0

\* the documented end-to-end scenario
ScenarioSeries ==
    << MetricsRow(1, 100000, NaN, NaN),
       MetricsRow(2, 110000, Whole(10000), Whole(100000)),
       MetricsRow(3, 105000, Whole(-5000), Whole(110000)),
       MetricsRow(4, 115000, Whole(10000), Whole(105000)) >>

\* a trend of half a unit on a revenue of 1000: each week adds 0.05 per cent
HalfwaySeries ==
    << MetricsRow(1, 999, NaN, NaN),
       MetricsRow(2, 999, Whole(0), Whole(999)),
       MetricsRow(3, 1000, Whole(1), Whole(999)) >>

WeeklySeries ==
    { s \in UNION { SeriesOfLen(n) : n \in 0..MaxWeeks } : NonNegative(s) }
    \cup { ScenarioSeries, HalfwaySeries }

MetricsOutcomes == { Err(m) : m \in Msgs } \cup { Ok(s) : s \in WeeklySeries }

ZeroDivisionMsg == "float division by zero"

\* faulty variant: every week adds avg_change to start, never to the week before
RunningOnce(start, avg_change, n) ==
    [i \in 1..Max(n, 0) |-> DAdd(start, avg_change)]

\* the running forecast after 1, 2, ..., n additions of avg_change to start
RECURSIVE Running(_, _, _)
Running(start, avg_change, n) ==
    IF n <= 0 THEN <<>>
    ELSE LET before == Running(start, avg_change, n - 1)
             forecast_mrr == IF n = 1 THEN start ELSE before[n - 1]
         IN  Append(before, DAdd(forecast_mrr, avg_change))

\* whether a computation raised instead of yielding a value
Raises(v) == "raise" \in DOMAIN v

\* faulty variant: "... if last_mrr else 0"
change_pct_guarded(forecast_mrr, last_mrr) ==
    IF last_mrr = DZero THEN Tenths(0)
    ELSE round1(DMul(DDiv(DSub(forecast_mrr, last_mrr), last_mrr), 100))

\* round(((forecast_mrr - last_mrr) / last_mrr) * 100, 1); the division of
\* two Python floats raises ZeroDivisionError when last_mrr is 0
change_pct(forecast_mrr, last_mrr) ==
    IF last_mrr = DZero THEN Err(ZeroDivisionMsg)
    ELSE round1(DMul(DDiv(DSub(forecast_mrr, last_mrr), last_mrr), 100))

----------------------------------------------------------------------------
(* domains/_1_forecast_mmr/tools.py: forecast_trend *)

DefaultWeeks == 4

TrendArgs == {<<>>} \cup { [weeks |-> w] : w \in 0..MaxAhead }

\* _forecast_trend once the loop has run: the first division by a last
\* revenue of 0 raises, and the handler answers with the message
TrendResponse(req, last_week, last_mrr, avg_change, running) ==
    IF running # <<>> /\ Raises(change_pct(running[1], last_mrr))
    THEN Done(req, ErrorResponse(ZeroDivisionMsg))
    ELSE Done(req, Returned(<<TextContent(Json(
             [success      |-> TRUE,
              model        |-> "Trend",
              baseline_mrr |-> round0(last_mrr),
              weekly_trend |-> round0(avg_change),
              predictions  |->
                  [i \in 1..Len(running) |->
                      [week          |-> last_week + i,
                       predicted_mrr |-> round0(running[i]),
                       change_pct    |-> change_pct(running[i], last_mrr)]]
             ]))>>))

\* the loop of _forecast_trend over the weeks asked for
TrendLoop(req, weeks, last_week, last_mrr, avg_change) ==
    TrendResponse(req, last_week, last_mrr, avg_change,
                  Running(last_mrr, avg_change, weeks))

\* g is what get_client() did, out what the metrics query does
_forecast_trend(arguments, g, out) ==
    LET weeks == Get(arguments, "weeks", DefaultWeeks) IN
    IF g.raise THEN Done(<<>>, ErrorResponse(ClientMsg))
    ELSE LET req == <<Request("query", "v_model_3_levers", out)>> IN
    IF out.raise THEN Done(req, ErrorResponse(out.msg))
    ELSE LET df == out.payload IN
    IF df = <<>> THEN Done(req, ErrorResponse(IndexErrorMsg))
    ELSE TrendLoop(req, weeks, df[Len(df)].week, float(df[Len(df)].total_mrr),
                   mean(tail(Column(df, "mrr_change"), TrendWindow)))

\* domains/_1_forecast_mmr/tools.py: call_tool
ForecastMmrCall(name, arguments, d, g) ==
    /\ _client' = g.client
    /\ constructions' = g.constructions
    /\ call' = ToolCall("forecast_mmr", name, arguments, ~g.raise, d)
    /\ pc' = "done"
    /\ UNCHANGED <<program, csvVars, batchVars>>

forecast_trend ==
    /\ program = "server" /\ pc = "idle"
    /\ \E a \in TrendArgs, o \in MetricsOutcomes, ok \in BOOLEAN :
        LET g == get_client(_client, constructions, ok) IN
        ForecastMmrCall("forecast_trend", a, _forecast_trend(a, g, o), g)

----------------------------------------------------------------------------
(* The report assemblers: forecast_mmr (fixed-layout text) and forecast_mrr *)
(* (data block inside the SCQA prompt)                                      *)

\* a whole percentage, in tenths
Pct(n) == n * 10

ReportHorizon == 4
TopCount == 3
HistoryWindow == 15

\* run.py: the features of the model and the lever each belongs to
feature_cols ==
    <<"pipeline_growth", "pipeline_growth_pct", "at_risk_change", "at_risk_pct",
      "new_wins", "velocity_change", "win_rate_pct", "mrr_lag1">>

Lever(feat) ==
    IF feat \in {"pipeline_growth", "pipeline_growth_pct"} THEN "Pipeline Growth"
    ELSE IF feat \in {"at_risk_change", "at_risk_pct"} THEN "At Risk"
    ELSE IF feat \in {"new_wins", "velocity_change", "win_rate_pct"} THEN "Deal Close"
    ELSE "Trend"

\* rows of t_forecast_feature_importance as a query returns them
FeatureResult(n) ==
    [i \in 1..n |-> [rank |-> i, feature |-> feature_cols[i],
                     lever |-> Lever(feature_cols[i]),
                     importance_pct |-> Pct(60) \div i]]

FeatureOutcomes == { Err("Not found: Table") } \cup { Ok(FeatureResult(n)) : n \in {0, 2} }

FallbackFeatures == << [lever |-> "Deal Close", importance_pct |-> Pct(74)] >>

\* rows of v_next_best_action, in priority order
DealRow(i, type) ==
    [company_name |-> "co" \o ToString(i), action_type |-> type,
     mrr |-> 100 * i, priority |-> i]

DealColumns == <<"company_name", "action_type", "mrr", "priority">>

DealFrames ==
    { [columns |-> DealColumns, data |-> <<>>],
      [columns |-> DealColumns,
       data |-> [i \in 1..MaxDeals |-> DealRow(i, IF i = 2 THEN "SAVE" ELSE "WIN")]],
      [columns |-> <<"company_name", "mrr">>,
       data |-> << [company_name |-> "co1", mrr |-> 100] >>] }

DealOutcomes == { Err("Access Denied") } \cup { Ok(df) : df \in DealFrames }

\* the latest week has no count of the deals at risk
UncountedSeries == [ScenarioSeries EXCEPT ![Len(ScenarioSeries)].at_risk_deals = NaN]

\* the week before the latest has no revenue figure
HollowSeries == [ScenarioSeries EXCEPT ![Len(ScenarioSeries) - 1].total_mrr = NaN]

\* the view without its lever columns
NarrowSeries ==
    [i \in 1..Len(ScenarioSeries) |->
        [c \in {"week", "total_mrr", "mrr_change", "mrr_lag1"} |-> ScenarioSeries[i][c]]]

ReportSeries == WeeklySeries \cup { UncountedSeries, HollowSeries, NarrowSeries }

ReportOutcomes ==
    { [metrics |-> m, features |-> f, deals |-> d] :
        m \in { Err(msg) : msg \in Msgs } \cup { Ok(s) : s \in ReportSeries },
        f \in FeatureOutcomes, d \in DealOutcomes }

\* deals_df[deals_df['action_type'] == type], as records
RECURSIVE Filter(_, _)
Filter(rows, type) ==
    IF rows = <<>> THEN <<>>
    ELSE IF Head(rows).action_type = type
         THEN <<Head(rows)>> \o Filter(Tail(rows), type)
         ELSE Filter(Tail(rows), type)

RECURSIVE SumMrr(_)
SumMrr(rows) == IF rows = <<>> THEN 0 ELSE Head(rows).mrr + SumMrr(Tail(rows))

FirstN(seq, n) == SubSeq(seq, 1, Min(n, Len(seq)))

\* step 4 of both assemblers: the deals of one action type; none when the
\* query raises or the rows have no action_type column (forecast_mmr tests
\* for the column, forecast_mrr catches the KeyError)
DealsOfType(out, type) ==
    IF ~out.raise /\ "action_type" \in Range(out.payload.columns)
    THEN Filter(out.payload.data, type)
    ELSE <<>>

\* df[numeric_cols].fillna(0): every column but the week is numeric
FillNumeric(rows) ==
    [i \in 1..Len(rows) |->
        [c \in DOMAIN rows[i] |->
            IF c = "week" THEN rows[i][c] ELSE fillna0(rows[i][c])]]

\* str(KeyError(col)), what df[col] raises for a column the frame lacks
KeyErrorMsg(col) == "'" \o col \o "'"

\* the first of the columns cols that the rows lack, or NoneStr
RECURSIVE FirstMissing(_, _)
FirstMissing(cols, rows) ==
    IF cols = <<>> THEN NoneStr
    ELSE IF Head(cols) \in DOMAIN rows[1] THEN FirstMissing(Tail(cols), rows)
    ELSE Head(cols)

\* the columns of the 15-week trajectory
HistoryColumns == <<"week", "total_mrr", "mrr_change", "win_rate_pct", "at_risk_pct">>

\* str(list) of column names
RECURSIVE ListStr(_)
ListStr(cols) ==
    IF cols = <<>> THEN ""
    ELSE "'" \o Head(cols) \o "'"
         \o (IF Len(cols) > 1 THEN ", " ELSE "") \o ListStr(Tail(cols))

\* str(KeyError) of df[[...]] when some, not all, of the columns are missing
NotInIndexMsg(cols, rows) ==
    LET missing == SelectSeq(cols, LAMBDA c : c \notin DOMAIN rows[1])
    IN  "\"[" \o ListStr(missing) \o "] not in index\""

NaNIntMsg == "cannot convert float NaN to integer"

\* int(v) of a float that is not NaN: towards zero
int(f) == IF f.x >= 0 THEN f.x \div Unit ELSE -((-f.x) \div Unit)

\* step 2: the forecast weeks, in thousands
Predictions(running) ==
    [i \in 1..Len(running) |->
        [week |-> i, mrr |-> round0(DDiv(running[i], DInt(1000)))]]

\* step 1: "... if prev['total_mrr'] else 0", where NaN is truthy; the
\* percentage is printed with one decimal
wow_pct(wow_change, prev_mrr) ==
    IF prev_mrr.nan \/ prev_mrr.x # 0
    THEN round1(DMul(DDiv(float(wow_change), float(prev_mrr)), 100))
    ELSE Tenths(0)

\* what steps 1 and 2 hand on, given the trend
Performance(latest, prev, filled, avg_change) ==
    [current_mrr   |-> latest.total_mrr,
     wow_change    |-> Get(latest, "mrr_change", Whole(0)),
     wow_pct       |-> wow_pct(Get(latest, "mrr_change", Whole(0)), prev.total_mrr),
     win_rate      |-> Get(latest, "win_rate_pct", Whole(0)),
     at_risk_pct   |-> Get(latest, "at_risk_pct", Whole(0)),
     at_risk_deals |-> Get(latest, "at_risk_deals", Whole(0)),
     avg_change    |-> avg_change,
     filled        |-> filled,
     predictions   |-> Predictions(Running(float(latest.total_mrr), avg_change,
                                           ReportHorizon))]

\* step 2: the trend of the frame after fillna(0)
Trend(latest, prev, filled) ==
    Performance(latest, prev, filled,
                mean(tail(Column(filled, "mrr_change"), TrendWindow)))

\* steps 1 and 2 of both assemblers, on a non-empty frame that has the
\* columns week, total_mrr and mrr_change: latest and prev are read before
\* the frame is filled
CurrentAndForecast(sorted) ==
    Trend(sorted[Len(sorted)],
          IF Len(sorted) > 1 THEN sorted[Len(sorted) - 1] ELSE sorted[Len(sorted)],
          FillNumeric(sorted))

\* step 3 of both assemblers
TopFeatures(out) == IF out.raise THEN FallbackFeatures ELSE out.payload

\* faulty variant: the deals are queried before the feature importance
LaterQueriesSwapped(outs) ==
    << Request("query", "v_next_best_action", outs.deals),
       Request("query", "t_forecast_feature_importance", outs.features) >>

\* faulty variant: the stored predictions are queried as well
LaterQueriesWithPredictions(outs) ==
    << Request("query", "t_forecast_feature_importance", outs.features),
       Request("query", "t_forecast_predictions", outs.features),
       Request("query", "v_next_best_action", outs.deals) >>

\* steps 3 and 4 of both assemblers: the feature-importance query, then the
\* deals query, each in its own try
LaterQueries(outs) ==
    << Request("query", "t_forecast_feature_importance", outs.features),
       Request("query", "v_next_best_action", outs.deals) >>

\* _forecast_mmr_report, steps 3 to 5: c is what steps 1 and 2 computed
mmr_report(reqs, c, top_features, wins, saves) ==
    \* step 5 starts with int(latest.get('at_risk_deals', 0))
    IF c.at_risk_deals.nan
    THEN Done(reqs, Returned(<<TextContent(
             ErrorText("Error generating report: ", NaNIntMsg))>>))
    ELSE Done(reqs, Returned(<<TextContent(ReportText(
             [title         |-> "WEEKLY MRR REPORT",
              current_mrr   |-> c.current_mrr,
              wow_change    |-> c.wow_change,
              wow_pct       |-> c.wow_pct,
              win_rate      |-> c.win_rate,
              at_risk_pct   |-> c.at_risk_pct,
              at_risk_deals |-> int(c.at_risk_deals),
              predictions   |-> c.predictions,
              avg_change    |-> c.avg_change,
              features      |-> FirstN(top_features, TopCount),
              win_total     |-> SumMrr(wins),
              save_total    |-> SumMrr(saves),
              deals_to_win  |-> FirstN(wins, TopCount),
              deals_to_save |-> FirstN(saves, TopCount)]))>>))

\* domains/_1_forecast_mmr/tools.py
_forecast_mmr_report(g, outs) ==
    LET prefix == "Error generating report: "
        failed(reqs, msg) == Done(reqs, Returned(<<TextContent(ErrorText(prefix, msg))>>))
    IN
    IF g.raise THEN failed(<<>>, ClientMsg)
    ELSE LET q1 == <<Request("query", "v_model_3_levers", outs.metrics)>> IN
    IF outs.metrics.raise THEN failed(q1, outs.metrics.msg)
    ELSE IF outs.metrics.payload = <<>> THEN failed(q1, IndexErrorMsg)
    ELSE LET lacking == FirstMissing(<<"week", "total_mrr", "mrr_change">>,
                                     outs.metrics.payload) IN
    IF lacking # NoneStr THEN failed(q1, KeyErrorMsg(lacking))
    ELSE mmr_report(q1 \o LaterQueries(outs),
                    CurrentAndForecast(sort_values(outs.metrics.payload)),
                    TopFeatures(outs.features),
                    DealsOfType(outs.deals, "WIN"),
                    DealsOfType(outs.deals, "SAVE"))

\* prompts.py: PROMPTS and get_prompt_content
TopPrompts == {"forecast_mrr"}
AnalysisPrompts == {"explore", "profile", "quick_stats"}
ForecastMmrPrompts == {"forecast_mmr", "forecast_drivers", "forecast_actions"}
OnboardingPrompts == {"onboarding_report", "onboarding_dropoff", "onboarding_compare"}

\* faulty variant: PROMPTS.get(name), which yields None for an unknown name
get_prompt_content_default(PROMPTS, name) ==
    IF name \in PROMPTS
    THEN Returned("prompt:" \o name)
    ELSE Returned(NoneStr)

get_prompt_content(PROMPTS, name) ==
    IF name \in PROMPTS
    THEN Returned("prompt:" \o name)
    ELSE Raised("ValueError", "Unknown prompt: " \o name)

\* _forecast_mrr_report, steps 3 to 7: c is what steps 1 and 2 computed
mrr_report(reqs, c, top_features, wins, saves) ==
    \* step 5: df[[...]] of the trajectory columns
    IF FirstMissing(HistoryColumns, c.filled) # NoneStr
    THEN Done(reqs, Returned(<<TextContent(
             ErrorText("Error: ", NotInIndexMsg(HistoryColumns, c.filled)))>>))
    ELSE Done(reqs, Returned(<<TextContent(ReportText(
             [title         |-> "DATA (use this to generate the report)",
              prompt        |-> get_prompt_content(TopPrompts, "forecast_mrr").value,
              current_mrr   |-> c.current_mrr,
              wow_change    |-> c.wow_change,
              wow_pct       |-> c.wow_pct,
              win_rate      |-> c.win_rate,
              at_risk_pct   |-> c.at_risk_pct,
              at_risk_deals |-> int(c.at_risk_deals),
              predictions   |-> c.predictions,
              avg_change    |-> c.avg_change,
              features      |-> top_features,
              history       |-> tail([i \in 1..Len(c.filled) |->
                                        [k \in Range(HistoryColumns) |-> c.filled[i][k]]],
                                    HistoryWindow),
              deals_to_win  |-> wins,
              deals_to_save |-> saves]))>>))

\* domains/_1_forecast_mrr/tools.py (and its copy in tools.py)
_forecast_mrr_report(g, outs) ==
    LET prefix == "Error: "
        failed(reqs, msg) == Done(reqs, Returned(<<TextContent(ErrorText(prefix, msg))>>))
    IN
    IF g.raise THEN failed(<<>>, ClientMsg)
    ELSE LET q1 == <<Request("query", "v_model_3_levers", outs.metrics)>> IN
    IF outs.metrics.raise THEN failed(q1, outs.metrics.msg)
    ELSE IF outs.metrics.payload = <<>> THEN failed(q1, IndexErrorMsg)
    ELSE LET lacking == FirstMissing(<<"week", "total_mrr">>, outs.metrics.payload) IN
    IF lacking # NoneStr THEN failed(q1, KeyErrorMsg(lacking))
    \* step 1 ends with int(latest.get('at_risk_deals', 0))
    ELSE IF Get(sort_values(outs.metrics.payload)[Len(outs.metrics.payload)],
                "at_risk_deals", Whole(0)).nan
    THEN failed(q1, NaNIntMsg)
    ELSE IF "mrr_change" \notin DOMAIN outs.metrics.payload[1]
    THEN failed(q1, KeyErrorMsg("mrr_change"))
    ELSE mrr_report(q1 \o LaterQueries(outs),
                    CurrentAndForecast(sort_values(outs.metrics.payload)),
                    TopFeatures(outs.features),
                    DealsOfType(outs.deals, "WIN"),
                    DealsOfType(outs.deals, "SAVE"))

forecast_mmr ==
    /\ program = "server" /\ pc = "idle"
    /\ \E o \in ReportOutcomes, ok \in BOOLEAN :
        LET g == get_client(_client, constructions, ok) IN
        ForecastMmrCall("forecast_mmr", <<>>, _forecast_mmr_report(g, o), g)

\* domains/_1_forecast_mrr/tools.py: call_tool
forecast_mrr ==
    /\ program = "server" /\ pc = "idle"
    /\ \E o \in ReportOutcomes, ok \in BOOLEAN :
        LET g == get_client(_client, constructions, ok)
            d == _forecast_mrr_report(g, o)
        IN  /\ _client' = g.client
            /\ constructions' = g.constructions
            /\ call' = ToolCall("forecast_mrr", "forecast_mrr", <<>>, ~g.raise, d)
    /\ pc' = "done"
    /\ UNCHANGED <<program, csvVars, batchVars>>

----------------------------------------------------------------------------
(* domains/_1_forecast_mrr/run.py: the offline forecast job *)

BatchHorizon == 4

Reverse(seq) == [i \in 1..Len(seq) |-> seq[Len(seq) + 1 - i]]

\* the view is read without ORDER BY: rows arrive in week order or reversed
BatchFrames == WeeklySeries \cup { Reverse(s) : s \in WeeklySeries }

\* model.feature_importances_, per mille, in the order of feature_cols
ImportanceVectors ==
    { <<300, 50, 100, 50, 200, 50, 150, 100>>,
      <<0, 0, 0, 0, 0, 0, 0, 1000>> }

\* df.dropna(subset=['mrr_lag1'])
RECURSIVE dropna(_)
dropna(rows) ==
    IF rows = <<>> THEN <<>>
    ELSE IF Head(rows).mrr_lag1.nan THEN dropna(Tail(rows))
         ELSE <<Head(rows)>> \o dropna(Tail(rows))

\* sorted(importance.items(), key=lambda x: x[1], reverse=True): stable
RECURSIVE InsertDesc(_, _)
InsertDesc(item, sorted) ==
    IF sorted = <<>> THEN <<item>>
    ELSE IF Head(sorted).importance >= item.importance
         THEN <<Head(sorted)>> \o InsertDesc(item, Tail(sorted))
         ELSE <<item>> \o sorted

RECURSIVE importance_sorted(_)
importance_sorted(items) ==
    IF items = <<>> THEN <<>>
    ELSE InsertDesc(items[Len(items)],
                    importance_sorted(SubSeq(items, 1, Len(items) - 1)))

ImportanceFrame(run_date, vector) ==
    LET items  == [i \in 1..Len(feature_cols) |->
                      [feature |-> feature_cols[i], importance |-> vector[i]]]
        sorted == importance_sorted(items)
    IN  [i \in 1..Len(sorted) |->
            [run_date       |-> run_date,
             feature        |-> sorted[i].feature,
             importance     |-> sorted[i].importance,
             importance_pct |-> sorted[i].importance,   \* round(imp * 100, 1), in tenths
             rank           |-> i,
             lever          |-> Lever(sorted[i].feature)]]

\* step 5: the rows of the predictions frame
PredictionRows(run_date, last_week, last_mrr, avg_change, running) ==
    [i \in 1..Len(running) |->
        [run_date      |-> run_date,
         forecast_week |-> last_week + i,
         weeks_ahead   |-> i,
         predicted_mrr |-> round0(running[i]),
         baseline_mrr  |-> round0(last_mrr),
         weekly_trend  |-> round0(avg_change),
         change_pct    |-> change_pct(running[i], last_mrr)]]

\* step 5: the loop that adds the trend week after week
TrendForecast(run_date, last_week, last_mrr, avg_change) ==
    PredictionRows(run_date, last_week, last_mrr, avg_change,
                   Running(last_mrr, avg_change, BatchHorizon))

\* step 5, for a non-empty frame whose last revenue is not 0
PredictionsFrame(run_date, df) ==
    TrendForecast(run_date, df[Len(df)].week, float(df[Len(df)].total_mrr),
                  mean(tail(Column(df, "mrr_change"), TrendWindow)))

\* the revenue of the second week is 0
LapsedSeries ==
    << MetricsRow(1, 100000, NaN, NaN),
       MetricsRow(2, 0, Whole(-100000), Whole(100000)) >>

\* a first run sees any frame; a re-run sees the documented scenario or the
\* lapsed one
RerunFrames == { ScenarioSeries, LapsedSeries }

BatchOutcomes(frames) ==
    { [client |-> c, query |-> q, fit |-> f, load_importance |-> li, load_predictions |-> lp] :
        c \in BOOLEAN,
        q \in { Err("Not found: Table") } \cup { Ok(b) : b \in frames },
        f \in { Err("fit failed") } \cup { Ok(v) : v \in ImportanceVectors },
        li \in { Err("load failed"), Ok("done") },
        lp \in { Err("load failed"), Ok("done") } }

\* faulty variant: WRITE_APPEND
load_table_append(old, new) == old \o new

\* load_table_from_dataframe with write_disposition="WRITE_TRUNCATE": the
\* table old becomes the frame new
load_table_from_dataframe(old, new) == new

\* faulty variant: neither table is replaced unless both loads succeed
tables_after_loads_atomic(imp, pred, importance_df, predictions_df, outs) ==
    IF outs.load_importance.raise \/ outs.load_predictions.raise
    THEN [importance |-> imp, predictions |-> pred]
    ELSE [importance  |-> load_table_from_dataframe(imp, importance_df),
          predictions |-> load_table_from_dataframe(pred, predictions_df)]

\* step 6: the importance load, then the predictions load; a load that
\* raises ends the run and leaves what was loaded before it in place
tables_after_loads(imp, pred, importance_df, predictions_df, outs) ==
    IF outs.load_importance.raise
    THEN [importance |-> imp, predictions |-> pred]
    ELSE IF outs.load_predictions.raise
    THEN [importance  |-> load_table_from_dataframe(imp, importance_df),
          predictions |-> pred]
    ELSE [importance  |-> load_table_from_dataframe(imp, importance_df),
          predictions |-> load_table_from_dataframe(pred, predictions_df)]

\* how main() ends when an exception leaves it
crash(reqs, exc, msg, df, importance_df, predictions_df, imp, pred) ==
    [requests |-> reqs, result |-> Raised(exc, msg), df |-> df,
     importance_df |-> importance_df, predictions_df |-> predictions_df,
     importance |-> imp, predictions |-> pred]

\* main(), step 6: the two loads; t is what the tables hold after them
save(q, outs, df, importance_df, predictions_df, t) ==
    LET l1 == <<Request("load", "t_forecast_feature_importance", outs.load_importance)>>
        l2 == <<Request("load", "t_forecast_predictions", outs.load_predictions)>>
    IN  IF outs.load_importance.raise
        THEN crash(q \o l1, "WarehouseError", outs.load_importance.msg,
                   df, importance_df, predictions_df, t.importance, t.predictions)
        ELSE IF outs.load_predictions.raise
        THEN crash(q \o l1 \o l2, "WarehouseError", outs.load_predictions.msg,
                   df, importance_df, predictions_df, t.importance, t.predictions)
        ELSE [requests |-> q \o l1 \o l2, result |-> Returned("done"), df |-> df,
              importance_df |-> importance_df, predictions_df |-> predictions_df,
              importance  |-> t.importance,
              predictions |-> t.predictions]

\* main(), steps 5 and 6, on a frame that has a last row
forecast(q, outs, df, importance_df, predictions_df, imp, pred) ==
    IF Raises(predictions_df[1].change_pct)
    THEN crash(q, "ZeroDivisionError", ZeroDivisionMsg, df, importance_df, <<>>, imp, pred)
    ELSE save(q, outs, df, importance_df, predictions_df,
              tables_after_loads(imp, pred, importance_df, predictions_df, outs))

\* main(), steps 2 to 6, on the frame df that step 1 prepared
train(run_date, q, outs, df, importance_df, imp, pred) ==
    IF outs.fit.raise
    THEN crash(q, "XGBoostError", outs.fit.msg, df, <<>>, <<>>, imp, pred)
    ELSE IF df = <<>>
    THEN crash(q, "IndexError", IndexErrorMsg, df, importance_df, <<>>, imp, pred)
    ELSE forecast(q, outs, df, importance_df, PredictionsFrame(run_date, df), imp, pred)

\* main(): run_date stands for datetime.now(); imp and pred are the two
\* output tables before the run
main(run_date, outs, imp, pred) ==
    IF ~outs.client
    THEN crash(<<>>, "ClientError", ClientMsg, <<>>, <<>>, <<>>, imp, pred)
    ELSE IF outs.query.raise
    THEN crash(<<Request("query", "v_model_3_levers", outs.query)>>,
               "WarehouseError", outs.query.msg, <<>>, <<>>, <<>>, imp, pred)
    ELSE train(run_date, <<Request("query", "v_model_3_levers", outs.query)>>, outs,
               dropna(FillNumeric(sort_values(outs.query.payload))),
               IF outs.fit.raise THEN <<>>
               ELSE ImportanceFrame(run_date, outs.fit.payload),
               imp, pred)

\* what a run leaves behind
ran(run, m) ==
    /\ t_forecast_feature_importance' = m.importance
    /\ t_forecast_predictions' = m.predictions
    /\ call' = [op |-> "batch", run |-> run,
                requests |-> m.requests, result |-> m.result, df |-> m.df,
                importance_df |-> m.importance_df,
                predictions_df |-> m.predictions_df]

run_batch ==
    /\ program = "batch" /\ pc = "idle"
    /\ runs < MaxRuns
    /\ \E outs \in BatchOutcomes(IF runs = 0 THEN BatchFrames ELSE RerunFrames) :
        /\ ran(runs + 1, main(runs + 1, outs, t_forecast_feature_importance,
                              t_forecast_predictions))
        \* client = bigquery.Client(): built by main() itself on every run,
        \* never stored in _client
        /\ constructions' = IF outs.client THEN constructions + 1 ELSE constructions
    /\ runs' = runs + 1
    /\ pc' = "done"
    /\ UNCHANGED <<program, _client, csvVars>>

----------------------------------------------------------------------------
(* tools.py: the top-level copy of the tool handlers *)

TopDispatch(name, arguments, g, out) ==
    IF name = "list_tables" THEN _list_tables(arguments, out)
    ELSE IF name = "describe_table" THEN _describe_table(arguments, out)
    ELSE IF name = "sample_table" THEN _sample_table(arguments, out)
    ELSE IF name = "query_bigquery" THEN _query_bigquery(arguments, out)
    ELSE IF name = "forecast_mrr" THEN _forecast_mrr_report(g, out)
    ELSE Done(<<>>, Raised("ValueError", "Unknown tool: " \o name))

TopCall(name, arguments, out) ==
    \E ok \in BOOLEAN :
        LET g == get_client(_client, constructions, ok)
            d == after_get_client(g, TopDispatch(name, arguments, g, out))
        IN  /\ _client' = g.client
            /\ constructions' = g.constructions
            /\ call' = ToolCall("tools", name, arguments, ~g.raise, d)
            /\ pc' = "done"
            /\ UNCHANGED <<program, csvVars, batchVars>>

\* the calls the top-level server is sent: a tool, its arguments and what
\* the warehouse does; profile_table and drop_table are names it lacks
TopCalls ==
    { <<"list_tables", a, o>> : a \in ListTablesArgs, o \in ListTablesOutcomes }
    \cup { <<"describe_table", a, o>> : a \in TableArgs, o \in DescribeOutcomes }
    \cup { <<"sample_table", a, o>> : a \in SampleArgs, o \in SampleOutcomes }
    \cup { <<"query_bigquery", a, o>> : a \in QueryArgs, o \in QueryOutcomes }
    \cup { <<"forecast_mrr", <<>>, o>> : o \in ReportOutcomes }
    \cup { <<n, a, Err("Not found: Table")>> :
              n \in {"profile_table", "drop_table"}, a \in TableArgs }

tools_call_tool ==
    /\ program = "server" /\ pc = "idle"
    /\ \E c \in TopCalls : TopCall(c[1], c[2], c[3])

----------------------------------------------------------------------------
(* Tools of the other domains *)

\* a call_tool that acquires no client before it dispatches
PlainCall(module, name, arguments, d) ==
    /\ call' = ToolCall(module, name, arguments, TRUE, d)
    /\ pc' = "done"
    /\ UNCHANGED <<program, _client, constructions, csvVars, batchVars>>

\* domains/_1_forecast_mmr/tools.py and domains/_1_forecast_mrr/tools.py:
\* the else branch of call_tool
forecast_unknown_tool ==
    /\ program = "server" /\ pc = "idle"
    /\ \/ \E n \in UnknownToolNames \cup {"list_tables"} :
             PlainCall("forecast_mmr", n, <<>>,
                       Done(<<>>, Raised("ValueError", "Unknown forecast tool: " \o n)))
       \/ \E n \in {"drop_table", "forecast_trend"} :
             PlainCall("forecast_mrr", n, <<>>,
                       Done(<<>>, Raised("ValueError", "Unknown tool: " \o n)))

\* domains/_2_onboarding_flow_analysis/tools.py
OnboardingArgs ==
    {<<>>, [date_range |-> "last_7d"], [step |-> "signup"], [cohort_a |-> "june"]}

FunnelStep(step, users, conversion) ==
    [step |-> step, users |-> users, conversion |-> conversion]

DropOffPoint(step, drop_off, pct, reason) ==
    [step |-> step, drop_off |-> drop_off, pct |-> pct, reason |-> reason]

Cohort(name, conversion, time_to_activate) ==
    [name |-> name, conversion |-> conversion, time_to_activate |-> time_to_activate]

OnboardingDispatch(name, arguments) ==
    IF name = "onboarding_funnel"
    THEN Done(<<>>, Returned(<<TextContent(Json(
             [success |-> TRUE, status |-> "placeholder",
              date_range |-> Get(arguments, "date_range", "last_30d"),
              todo |-> "Create BQ view: v_onboarding_funnel",
              expected_output |->
                  [steps |-> <<FunnelStep("signup", 1000, "100%"),
                               FunnelStep("email_verified", 800, "80%"),
                               FunnelStep("profile_complete", 600, "75%"),
                               FunnelStep("first_action", 400, "67%"),
                               FunnelStep("activated", 300, "75%")>>,
                   overall_conversion |-> "30%"]]))>>))
    ELSE IF name = "onboarding_dropoff"
    THEN Done(<<>>, Returned(<<TextContent(Json(
             [success |-> TRUE, status |-> "placeholder",
              step_filter |-> Get(arguments, "step", NoneStr),
              todo |-> "Create BQ view: v_onboarding_dropoff",
              expected_output |->
                  [drop_off_points |->
                      <<DropOffPoint("email_verified", 200, "20%",
                                     "Email not received/checked"),
                        DropOffPoint("profile_complete", 200, "25%",
                                     "Too many required fields"),
                        DropOffPoint("first_action", 200, "33%",
                                     "Unclear next steps")>>]]))>>))
    ELSE IF name = "onboarding_cohort"
    THEN LET cohort_a == Get(arguments, "cohort_a", "current")
             cohort_b == Get(arguments, "cohort_b", "previous")
         IN  Done(<<>>, Returned(<<TextContent(Json(
             [success |-> TRUE, status |-> "placeholder",
              comparing |-> cohort_a \o " vs " \o cohort_b,
              todo |-> "Create BQ view: v_onboarding_cohort_comparison",
              expected_output |->
                  [cohort_a |-> Cohort(cohort_a, "30%", "2.5 days"),
                   cohort_b |-> Cohort(cohort_b, "25%", "3.2 days"),
                   improvement |->
                       "+5% conversion, -0.7 days time to activate"]]))>>))
    ELSE IF name = "onboarding_report"
    THEN Done(<<>>, Returned(<<TextContent(ReportText(
             [title |-> "ONBOARDING FLOW REPORT"]))>>))
    ELSE Done(<<>>, Raised("ValueError", "Unknown onboarding tool: " \o name))

OnboardingTools ==
    {"onboarding_funnel", "onboarding_dropoff", "onboarding_cohort", "onboarding_report"}

onboarding_call_tool ==
    /\ program = "server" /\ pc = "idle"
    /\ \E n \in OnboardingTools \cup UnknownToolNames, a \in OnboardingArgs :
          PlainCall("onboarding", n, a, OnboardingDispatch(n, a))

----------------------------------------------------------------------------
(* Resources *)

Uris ==
    {"schema://bigquery", "schema://datasets", "forecast://latest",
     "forecast://feature_importance", "onboarding://funnel", "onboarding://dropoff",
     "schema://tables", "forecast://nothing"}

ResourceCall(module, uri, client_ok, d) ==
    [op |-> "read_resource", module |-> module, uri |-> uri,
     client_ok |-> client_ok, requests |-> d.requests, result |-> d.result]

SchemaBigquery ==
    Json([data_source |-> "BigQuery",
          commonly_used |-> <<"prod-im-data.mod_imx.hubspot_b2b_deal",
                              "prod-im-data.mod_imx.hubspot_b2b_company",
                              "dev-im-platform.temp_fei_ai.v_model_3_levers",
                              "dev-im-platform.temp_fei_ai.v_next_best_action">>,
          hint |-> "Use list_tables, describe_table, sample_table, or query_bigquery tools"])
SchemaDatasets ==
    Json([datasets |->
            <<[id |-> "prod-im-data.mod_imx",
               description |-> "Production Hubspot and IMX data"],
              [id |-> "dev-im-platform.temp_fei_ai",
               description |-> "Analysis views and temp tables"]>>])

\* domains/_0_general_analysis/resources.py
AnalysisResource(uri) ==
    IF uri = "schema://bigquery" THEN Done(<<>>, Returned(SchemaBigquery))
    ELSE IF uri = "schema://datasets" THEN Done(<<>>, Returned(SchemaDatasets))
    ELSE Done(<<>>, Raised("ValueError", "Unknown analysis resource: " \o uri))

\* domains/_2_onboarding_flow_analysis/resources.py
OnboardingResource(uri) ==
    IF uri = "onboarding://funnel"
    THEN Done(<<>>, Returned(Json([status |-> "placeholder",
             message |-> "Create BQ view for onboarding funnel data",
             expected_columns |-> <<"step", "users", "conversion_rate", "drop_off_rate">>])))
    ELSE IF uri = "onboarding://dropoff"
    THEN Done(<<>>, Returned(Json([status |-> "placeholder",
             message |-> "Create BQ view for drop-off analysis",
             expected_columns |->
                 <<"step", "drop_off_count", "drop_off_pct", "common_reasons">>])))
    ELSE Done(<<>>, Raised("ValueError", "Unknown onboarding resource: " \o uri))

\* resources.py: the project and dataset of the forecast tables
PROJECT == "dev-im-platform"
DATASET == "temp_fei_ai"

\* f"{PROJECT}.{DATASET}.<table>"
Qualified(table) == PROJECT \o "." \o DATASET \o "." \o table

\* faulty variant: a failing query is answered with a JSON error
ForecastBranchCaught(uri, out) ==
    LET target == IF uri = "forecast://latest" THEN "t_forecast_predictions"
                  ELSE "t_forecast_feature_importance"
        req == <<Request("query", target, out)>>
    IN  IF out.raise THEN Done(req, Returned(Json([error |-> out.msg])))
        ELSE IF uri = "forecast://latest"
        THEN Done(req, Returned(Json([source |-> Qualified(target),
                                      predictions |-> out.payload])))
        ELSE Done(req, Returned(Json([source |-> Qualified(target),
                                      features |-> out.payload])))

\* the two forecast branches shared by domains/_1_forecast_mrr/resources.py
\* and resources.py; a failing query is not caught
ForecastBranch(uri, out) ==
    LET target == IF uri = "forecast://latest" THEN "t_forecast_predictions"
                  ELSE "t_forecast_feature_importance"
        req == <<Request("query", target, out)>>
    IN  IF out.raise THEN Done(req, Raised("WarehouseError", out.msg))
        ELSE IF uri = "forecast://latest"
        THEN Done(req, Returned(Json([source |-> Qualified(target),
                                      predictions |-> out.payload])))
        ELSE Done(req, Returned(Json([source |-> Qualified(target),
                                      features |-> out.payload])))

\* domains/_1_forecast_mrr/resources.py, after get_client()
ForecastResource(uri, out) ==
    IF uri \in {"forecast://latest", "forecast://feature_importance"}
    THEN ForecastBranch(uri, out)
    ELSE Done(<<>>, Raised("ValueError", "Unknown forecast resource: " \o uri))

\* resources.py, after get_client()
TopResource(uri, out) ==
    IF uri = "schema://bigquery" THEN Done(<<>>, Returned(SchemaBigquery))
    ELSE IF uri = "schema://datasets" THEN Done(<<>>, Returned(SchemaDatasets))
    ELSE IF uri \in {"forecast://latest", "forecast://feature_importance"}
    THEN ForecastBranch(uri, out)
    ELSE Done(<<>>, Raised("ValueError", "Unknown resource: " \o uri))

\* main.py: the data directory when DA_DATA_DIR is not set, and the
\* directories the process may be started with
DefaultDataDir == "./"
DataDirs == {DefaultDataDir, "/srv/data"}

\* main.py: read_resource; data_dir is DATA_DIR
CsvResource(uri, info, data_dir) ==
    IF uri = "schema://tables"
    THEN IF DOMAIN info = {}
         THEN Done(<<>>, Returned(Json([error |-> "No CSV data loaded",
                  help |-> "Make sure CSV files exist in the data directory"])))
         ELSE Done(<<>>, Returned(Json([data_source |-> "CSV files", data_directory |-> data_dir,
                                      tables |-> info])))
    ELSE Done(<<>>, Raised("ValueError", "Unknown resource: " \o uri))

ResourceOutcomes ==
    { Err(m) : m \in Msgs } \cup { Ok(<<>>), Ok(FeatureResult(2)) }

\* read_resource of the domains that need no client
read_static_resource ==
    /\ program = "server" /\ pc = "idle"
    /\ \E uri \in Uris, module \in {"analysis", "onboarding"} :
          call' = ResourceCall(module, uri, TRUE,
                      IF module = "analysis" THEN AnalysisResource(uri)
                      ELSE OnboardingResource(uri))
    /\ pc' = "done"
    /\ UNCHANGED <<program, _client, constructions, csvVars, batchVars>>

\* read_resource of the modules that acquire the client first
read_forecast_resource ==
    /\ program = "server" /\ pc = "idle"
    /\ \E uri \in Uris, module \in {"forecast_mrr", "resources"},
          out \in ResourceOutcomes, ok \in BOOLEAN :
          LET g == get_client(_client, constructions, ok)
              d == IF g.raise THEN Done(<<>>, Raised("ClientError", ClientMsg))
                   ELSE IF module = "forecast_mrr" THEN ForecastResource(uri, out)
                   ELSE TopResource(uri, out)
          IN  /\ _client' = g.client
              /\ constructions' = g.constructions
              /\ call' = ResourceCall(module, uri, ~g.raise, d)
    /\ pc' = "done"
    /\ UNCHANGED <<program, csvVars, batchVars>>

csv_read_resource ==
    /\ program = "csv" /\ pc = "idle"
    /\ \E uri \in Uris :
          call' = ResourceCall("main", uri, TRUE, CsvResource(uri, csv_info, DATA_DIR))
    /\ pc' = "done"
    /\ UNCHANGED <<program, _client, constructions, csvVars, batchVars>>

----------------------------------------------------------------------------
(* Prompts *)

PromptNames ==
    TopPrompts \cup AnalysisPrompts \cup ForecastMmrPrompts \cup OnboardingPrompts
    \cup {"no_such_prompt"}

PromptsOf(module) ==
    IF module = "prompts" THEN TopPrompts
    ELSE IF module = "analysis" THEN AnalysisPrompts
    ELSE IF module = "forecast_mmr" THEN ForecastMmrPrompts
    ELSE OnboardingPrompts

get_prompt ==
    /\ program = "server" /\ pc = "idle"
    /\ \E name \in PromptNames,
          module \in {"prompts", "analysis", "forecast_mmr", "onboarding"} :
          call' = [op |-> "get_prompt_content", module |-> module, name |-> name,
                   client_ok |-> TRUE, requests |-> <<>>,
                   result |-> get_prompt_content(PromptsOf(module), name)]
    /\ pc' = "done"
    /\ UNCHANGED <<program, _client, constructions, csvVars, batchVars>>

\* the transport hands the reply to the client and takes the next request
Respond ==
    /\ pc = "done"
    /\ pc' = "idle"
    /\ call' = NoCall
    /\ UNCHANGED <<program, _client, constructions, csvVars, batchVars>>

----------------------------------------------------------------------------

\* the state of a freshly started process: the warehouse server with no
\* client yet, or the CSV variant after its startup load
Init ==
    /\ _client = NoneStr
    /\ constructions = 0
    /\ pc = "idle"
    /\ call = NoCall
    /\ t_forecast_feature_importance = <<>>
    /\ t_forecast_predictions = <<>>
    /\ runs = 0
    /\ \/ /\ program = "server"
          /\ dataframes = <<>>
          /\ csv_info = <<>>
          /\ DATA_DIR = DefaultDataDir
          /\ EMAIL_SENDER = DefaultSender
          /\ EMAIL_PASSWORD = ""
          /\ EMAIL_RECIPIENT = DefaultRecipient
       \/ /\ program = "batch"
          /\ dataframes = <<>>
          /\ csv_info = <<>>
          /\ DATA_DIR = DefaultDataDir
          /\ EMAIL_SENDER = DefaultSender
          /\ EMAIL_PASSWORD = ""
          /\ EMAIL_RECIPIENT = DefaultRecipient
       \/ /\ program = "csv"
          /\ \E loaded \in load_csv_data :
                /\ dataframes = loaded.dataframes
                /\ csv_info = loaded.csv_info
          /\ DATA_DIR \in DataDirs
          /\ EMAIL_SENDER \in Senders
          /\ EMAIL_PASSWORD \in Passwords
          /\ EMAIL_RECIPIENT \in Recipients

Next ==
    \/ list_tables
    \/ describe_table
    \/ sample_table
    \/ query_bigquery
    \/ profile_table
    \/ analysis_unknown_tool
    \/ forecast_trend
    \/ forecast_mmr
    \/ forecast_mrr
    \/ tools_call_tool
    \/ forecast_unknown_tool
    \/ onboarding_call_tool
    \/ read_static_resource
    \/ read_forecast_resource
    \/ get_prompt
    \/ query_table
    \/ generate_report
    \/ csv_read_resource
    \/ run_batch
    \/ csv_unknown_tool
    \/ Respond

Spec == Init /\ [][Next]_vars

----------------------------------------------------------------------------
(* Properties.  Each is stated on the call that has just finished: its     *)
(* inputs, the requests it issued and how it ended.                        *)

IsToolCall == pc = "done" /\ call.op = "call_tool"

\* the tools each module's get_tools() declares
DeclaredTools(module) ==
    IF module = "analysis"
    THEN {"list_tables", "describe_table", "sample_table", "query_bigquery", "profile_table"}
    ELSE IF module = "tools"
    THEN {"list_tables", "describe_table", "sample_table", "query_bigquery", "forecast_mrr"}
    ELSE IF module = "forecast_mmr" THEN {"forecast_mmr", "forecast_trend"}
    ELSE IF module = "forecast_mrr" THEN {"forecast_mrr"}
    ELSE IF module = "onboarding" THEN OnboardingTools
    ELSE {"query_table", "generate_report"}

\* the argument each tool declares as required
RequiredArg(name) ==
    IF name = "list_tables" THEN "dataset"
    ELSE IF name = "query_bigquery" THEN "sql"
    ELSE IF name = "query_table" THEN "table_name"
    ELSE "table"

ToolsWithRequiredArg ==
    {"list_tables", "describe_table", "sample_table", "query_bigquery",
     "profile_table", "query_table"}

\* a declared tool was called without its required argument (absent, None or "")
MissingRequired ==
    /\ IsToolCall
    /\ call.module \in {"analysis", "tools", "main"}
    /\ call.name \in DeclaredTools(call.module) \cap ToolsWithRequiredArg
    /\ LET v == Get(call.arguments, RequiredArg(call.name), NoneStr)
       IN  v = NoneStr \/ v = ""

\* the call returned one JSON payload {success: false, error: msg}
FailureReply(msg) ==
    /\ call.result.kind = "return"
    /\ call.result.value = <<[type |-> "text",
                              text |-> [format |-> "json",
                                        value |-> [success |-> FALSE, error |-> msg]]]>>

IsFailureReply ==
    /\ call.result.kind = "return"
    /\ Len(call.result.value) = 1
    /\ call.result.value[1].text.format = "json"
    /\ call.result.value[1].text.value.success = FALSE
    /\ "error" \in DOMAIN call.result.value[1].text.value

\* the JSON object of a reply
Body == call.result.value[1].text.value

\* C1, as stated: every call of a tool without its required argument returns
\* {success:false, error:...} and issues no request to the warehouse client.
C1_AsStated ==
    MissingRequired => IsFailureReply /\ call.requests = <<>>

\* C1: a call of a tool without its required argument issues no request to
\* the warehouse client; it returns {success:false, error:...} whenever the
\* client could be acquired, and otherwise the construction failure is raised
\* to the caller.
C1_MissingArgument ==
    MissingRequired =>
        /\ call.requests = <<>>
        /\ call.client_ok => IsFailureReply
        /\ ~call.client_ok => call.result.kind = "raise" /\ call.result.exc = "ClientError"

C1_Witness ==
    /\ MissingRequired
    /\ call.module = "analysis" /\ call.name = "list_tables"
    /\ call.arguments = [dataset |-> ""]
    /\ call.client_ok /\ IsFailureReply /\ call.requests = <<>>

\* C2, as stated: for all five general-analysis tools the error string is the
\* name of the required parameter followed by " is required".
C2_AsStated ==
    (MissingRequired /\ call.module = "analysis" /\ call.client_ok) =>
        FailureReply(RequiredArg(call.name) \o " is required")

\* C2: the error string for a missing required argument is the name of the
\* parameter followed by " is required" for list_tables, describe_table,
\* sample_table, profile_table and query_table; for query_bigquery it is
\* "sql query is required".
C2_ErrorString ==
    (MissingRequired /\ call.client_ok) =>
        FailureReply(IF call.name = "query_bigquery" THEN "sql query is required"
                     ELSE RequiredArg(call.name) \o " is required")

C2_Witness ==
    /\ MissingRequired /\ call.client_ok
    /\ call.module = "analysis" /\ call.name = "query_bigquery"
    /\ FailureReply("sql query is required")

\* a query_bigquery call whose query returned a result set
QueryReturned ==
    /\ IsToolCall
    /\ call.module \in {"analysis", "tools"} /\ call.name = "query_bigquery"
    /\ call.requests # <<>>
    /\ ~call.requests[1].outcome.raise

\* a query_table call that found its table and columns
TableReturned ==
    /\ IsToolCall
    /\ call.module = "main" /\ call.name = "query_table"
    /\ Body.success

\* the reply carries the first min(R, L) of the rows and says so
Limited(rows, L) ==
    LET R == Len(rows)
        kept == IF R < L THEN R ELSE L
    IN  /\ Body.rows = kept
        /\ Len(Body.data) = kept
        /\ \A i \in 1..kept : Body.data[i] = rows[i]
        /\ Body.truncated = (R > L)

\* C3: for a result set of R rows and a limit L (100 for query_bigquery and
\* 1000 for query_table when absent) the reply has exactly min(R, L) rows,
\* reports rows = min(R, L), and has truncated = true iff R > L.
C3_RowLimit ==
    /\ QueryReturned =>
          Limited(call.requests[1].outcome.payload.data,
                  Get(call.arguments, "limit", 100))
    /\ TableReturned =>
          LET df == dataframes[call.arguments.table_name] IN
          /\ Body.rows = Min(Len(df.data), Get(call.arguments, "limit", 1000))
          /\ Len(Body.data) = Body.rows
          /\ Body.truncated = (Len(df.data) > Get(call.arguments, "limit", 1000))

\* R = L at the default limit: nothing is cut and truncated is false
C3_Witness ==
    /\ QueryReturned
    /\ "limit" \notin DOMAIN call.arguments
    /\ Len(call.requests[1].outcome.payload.data) = 100
    /\ Body.rows = 100 /\ ~Body.truncated

\* n is a whole number nearest to a / b, either one when two are equally near
IsNearest(n, a, b) ==
    LET d == n * b - a
    IN  2 * (IF d < 0 THEN -d ELSE d) <= (IF b < 0 THEN -b ELSE b)

\* v is f rounded to a whole number
IsRounded(v, f) ==
    IF f.nan THEN v.nan
    ELSE ~v.nan /\ v.x % Unit = 0 /\ IsNearest(v.x \div Unit, f.x, Unit)

\* v0 + k*m
Linear(v0, m, k) == IF m.nan THEN NaN ELSE Num(v0.x + k * m.x)

\* a forecast_trend call that produced its forecast
TrendReturned ==
    /\ IsToolCall
    /\ call.module = "forecast_mmr" /\ call.name = "forecast_trend"
    /\ call.result.kind = "return" /\ Body.success

\* an offline run that got as far as the forecast
BatchForecast == pc = "done" /\ call.op = "batch" /\ call.predictions_df # <<>>

\* the frame the forecast_trend call read
TrendFrame == call.requests[1].outcome.payload

\* the mean of the last four deltas of a frame, missing ones skipped
LastFourMean(df) ==
    LET last == [i \in 1..Min(4, Len(df)) |-> df[Len(df) - Min(4, Len(df)) + i].mrr_change]
        seen == { i \in 1..Len(last) : ~last[i].nan }
        RECURSIVE sum(_)
        sum(S) == IF S = {} THEN 0
                  ELSE LET i == CHOOSE j \in S : TRUE IN last[i].x + sum(S \ {i})
    IN  IF seen = {} THEN NaN ELSE Num(sum(seen) \div Cardinality(seen))

\* the predictions are exactly v0 + k*m and the exact percentage
ExactPredictions(preds, v0, m) ==
    \A k \in 1..Len(preds) :
        /\ preds[k].predicted_mrr = Linear(v0, m, k)
        /\ ~m.nan => ~preds[k].change_pct.nan
                     /\ preds[k].change_pct.tenths * v0.x = k * m.x * 1000

\* the predictions are v0 + k*m rounded to a whole number and the percentage
\* rounded to one decimal
RoundedPredictions(preds, v0, m) ==
    \A k \in 1..Len(preds) :
        /\ IsRounded(preds[k].predicted_mrr, Linear(v0, m, k))
        /\ IF m.nan THEN preds[k].change_pct.nan
           ELSE /\ ~preds[k].change_pct.nan
                /\ IsNearest(preds[k].change_pct.tenths, k * m.x * 1000, v0.x)

\* C4, as stated: the k-th prediction equals v0 + k*m and its change_pct
\* equals (v0 + k*m - v0)/v0*100, in forecast_trend and in the offline job.
C4_AsStated ==
    /\ TrendReturned =>
          ExactPredictions(Body.predictions, TrendFrame[Len(TrendFrame)].total_mrr,
                           LastFourMean(TrendFrame))
    /\ BatchForecast =>
          ExactPredictions(call.predictions_df, call.df[Len(call.df)].total_mrr,
                           LastFourMean(call.df))

\* C4: with m the mean of the last four deltas and v0 the last revenue, a
\* forecast over N weeks that succeeds lists exactly N predictions for weeks
\* k = 1..N in increasing order; the k-th predicted_mrr is v0 + k*m rounded to
\* a whole number and its change_pct is (v0 + k*m - v0)/v0*100 rounded to one
\* decimal.
C4_TrendForecast ==
    /\ TrendReturned =>
          LET df == TrendFrame IN
          /\ Len(Body.predictions) = Get(call.arguments, "weeks", 4)
          /\ \A k \in 1..Len(Body.predictions) :
                Body.predictions[k].week = df[Len(df)].week + k
          /\ RoundedPredictions(Body.predictions, df[Len(df)].total_mrr,
                                LastFourMean(df))
    /\ BatchForecast =>
          LET df == call.df IN
          /\ Len(call.predictions_df) = 4
          /\ \A k \in 1..Len(call.predictions_df) :
                /\ call.predictions_df[k].weeks_ahead = k
                /\ call.predictions_df[k].forecast_week = df[Len(df)].week + k
          /\ RoundedPredictions(call.predictions_df, df[Len(df)].total_mrr,
                                LastFourMean(df))

\* the documented scenario, two weeks ahead: 115000 + 2 * 5000
C4_Witness ==
    /\ TrendReturned
    /\ TrendFrame = ScenarioSeries
    /\ call.arguments = [weeks |-> 2]
    /\ Len(Body.predictions) = 2
    /\ Body.predictions[2].predicted_mrr = Whole(125000)
    /\ Body.predictions[2].change_pct = Tenths(87)

\* a call of a direct query tool whose first warehouse request raised
FirstRequestRaised ==
    /\ IsToolCall
    /\ \/ /\ call.module \in {"analysis", "tools"}
          /\ call.name \in DeclaredTools(call.module) \ {"forecast_mrr"}
       \/ call.module = "forecast_mmr" /\ call.name = "forecast_trend"
    /\ call.requests # <<>>
    /\ call.requests[1].outcome.raise

\* C5: when the warehouse call of list_tables, describe_table, sample_table,
\* query_bigquery, profile_table's schema fetch or forecast_trend raises with
\* message M, the call returns {success:false, error:M} and nothing is raised
\* to the caller.
C5_WarehouseFailure ==
    FirstRequestRaised =>
        /\ FailureReply(call.requests[1].outcome.msg)
        /\ Len(call.requests) = 1

C5_Witness ==
    /\ FirstRequestRaised
    /\ call.name = "forecast_trend"
    /\ call.requests[1].outcome.msg = "Access Denied"
    /\ FailureReply("Access Denied")

\* a call of one of the two report assemblers
IsReportCall ==
    /\ IsToolCall
    /\ \/ call.module = "forecast_mmr" /\ call.name = "forecast_mmr"
       \/ call.module \in {"forecast_mrr", "tools"} /\ call.name = "forecast_mrr"

\* the payload is the report, not an error text
ReportReturned ==
    /\ call.result.kind = "return"
    /\ Len(call.result.value) = 1
    /\ call.result.value[1].text.format = "text"
    /\ call.result.value[1].text.report

Sections == call.result.value[1].text.sections

\* the rows of a frame with a given action type, in order
RowsOfType(df, type) ==
    LET idx == { i \in 1..Len(df.data) : df.data[i].action_type = type }
        RECURSIVE pick(_)
        pick(S) == IF S = {} THEN <<>>
                   ELSE LET i == CHOOSE j \in S : \A k \in S : j <= k
                        IN  <<df.data[i]>> \o pick(S \ {i})
    IN  pick(idx)

\* the weekly-metrics query returned and the feature-importance query raised
FeatureQueryRaised ==
    /\ IsReportCall
    /\ Len(call.requests) >= 2
    /\ ~call.requests[1].outcome.raise
    /\ call.requests[2].target = "t_forecast_feature_importance"
    /\ call.requests[2].outcome.raise

\* C6: in both report variants, when the weekly-metrics query succeeds and
\* the feature-importance query raises, the report is still returned, its
\* feature list is the fallback [{lever: "Deal Close", importance_pct: 74}],
\* and the deals query is still issued and its rows fill the deal sections.
C6_FeatureFallback ==
    FeatureQueryRaised =>
        /\ ReportReturned
        /\ Sections.features = <<[lever |-> "Deal Close", importance_pct |-> 740]>>
        /\ Len(call.requests) = 3
        /\ call.requests[3].target = "v_next_best_action"
        /\ LET o == call.requests[3].outcome IN
           (~o.raise /\ \E i \in 1..Len(o.payload.columns) :
                            o.payload.columns[i] = "action_type") =>
               LET wins  == RowsOfType(o.payload, "WIN")
                   saves == RowsOfType(o.payload, "SAVE")
               IN  IF call.module = "forecast_mmr"
                   THEN /\ Sections.deals_to_win = SubSeq(wins, 1, Min(3, Len(wins)))
                        /\ Sections.deals_to_save = SubSeq(saves, 1, Min(3, Len(saves)))
                   ELSE /\ Sections.deals_to_win = wins
                        /\ Sections.deals_to_save = saves

\* the deals query raised, or (plain-text variant) returned rows that have no
\* action_type column
DealsUnusable ==
    /\ IsReportCall
    /\ Len(call.requests) = 3
    /\ call.requests[3].target = "v_next_best_action"
    /\ LET o == call.requests[3].outcome IN
       \/ o.raise
       \/ /\ call.module = "forecast_mmr"
          /\ \A i \in 1..Len(o.payload.columns) : o.payload.columns[i] # "action_type"

\* C7: in both report variants, when the deals query raises (or, in the
\* plain-text variant, its rows have no action_type column), both deal lists
\* are empty and the win and save totals are 0, and the report is still
\* returned with current performance, forecast and feature importance filled.
C7_DealsFallback ==
    DealsUnusable =>
        /\ ReportReturned
        /\ Sections.deals_to_win = <<>>
        /\ Sections.deals_to_save = <<>>
        /\ call.module = "forecast_mmr" =>
              Sections.win_total = 0 /\ Sections.save_total = 0
        /\ LET df == call.requests[1].outcome.payload
               f  == call.requests[2].outcome
           IN  /\ \E i \in 1..Len(df) :
                     /\ \A j \in 1..Len(df) : df[j].week <= df[i].week
                     /\ Sections.current_mrr = df[i].total_mrr
               /\ Len(Sections.predictions) = 4
               /\ ~f.raise =>
                     Sections.features =
                        (IF call.module = "forecast_mmr"
                         THEN SubSeq(f.payload, 1, Min(3, Len(f.payload)))
                         ELSE f.payload)

\* a profile_table call whose schema fetch returned
ProfileReturned ==
    /\ IsToolCall
    /\ call.module = "analysis" /\ call.name = "profile_table"
    /\ call.requests # <<>>
    /\ ~call.requests[1].outcome.raise

ProfiledSchema ==
    LET schema == call.requests[1].outcome.payload.schema
    IN  SubSeq(schema, 1, Min(20, Len(schema)))

\* C8: whichever per-column statistics queries raise, profile_table returns
\* success:true with one entry per profiled column in schema order; a failed
\* column has null_pct and distinct_count null, a non-failed column keeps its
\* values, and every profiled column is queried, also after a failure.
C8_ColumnFailure ==
    ProfileReturned =>
        /\ call.result.kind = "return" /\ Body.success
        /\ Len(Body.profile) = Len(ProfiledSchema)
        /\ Len(call.requests) = 1 + Len(ProfiledSchema)
        /\ \A i \in 1..Len(ProfiledSchema) :
              LET q == call.requests[i + 1] IN
              /\ Body.profile[i].name = ProfiledSchema[i].name
              /\ q.api = "query" /\ q.target = ProfiledSchema[i].name
              /\ q.outcome.raise =>
                    /\ Body.profile[i].null_pct = NoneNum
                    /\ Body.profile[i].distinct_count = NoneNum
              /\ ~q.outcome.raise =>
                    /\ Body.profile[i].null_pct # NoneNum
                    /\ Body.profile[i].distinct_count = q.outcome.payload.distinct_count

\* the first column fails, the second is still queried and keeps its values
C8_Witness ==
    /\ ProfileReturned
    /\ Len(ProfiledSchema) = 2
    /\ call.requests[2].outcome.raise
    /\ ~call.requests[3].outcome.raise
    /\ Body.profile[1].null_pct = NoneNum
    /\ Body.profile[2].distinct_count = 2

\* C9: in profile_table, with a row count of 0 every successfully queried
\* column reports null_pct = 0; with a positive row count null_pct is
\* null_count / row_count * 100 rounded to one decimal.
C9_NullPct ==
    ProfileReturned =>
        LET row_count == call.requests[1].outcome.payload.num_rows IN
        \A i \in 1..Len(ProfiledSchema) :
            LET q == call.requests[i + 1] IN
            ~q.outcome.raise =>
                IF row_count = 0
                THEN Body.profile[i].null_pct = 0
                ELSE IsNearest(Body.profile[i].null_pct,
                               q.outcome.payload.null_count * 1000, row_count)

\* nulls counted on a table whose metadata says it has no rows
C9_Witness ==
    /\ ProfileReturned
    /\ call.requests[1].outcome.payload.num_rows = 0
    /\ Len(ProfiledSchema) >= 1
    /\ ~call.requests[2].outcome.raise
    /\ call.requests[2].outcome.payload.null_count = 2
    /\ Body.profile[1].null_pct = 0

\* the URIs each module's read_resource handles
KnownUris(module) ==
    IF module = "analysis" THEN {"schema://bigquery", "schema://datasets"}
    ELSE IF module = "onboarding" THEN {"onboarding://funnel", "onboarding://dropoff"}
    ELSE IF module = "forecast_mrr"
    THEN {"forecast://latest", "forecast://feature_importance"}
    ELSE IF module = "resources"
    THEN {"schema://bigquery", "schema://datasets",
          "forecast://latest", "forecast://feature_importance"}
    ELSE {"schema://tables"}

\* the prompt names each prompts module defines
KnownPrompts(module) ==
    IF module = "prompts" THEN {"forecast_mrr"}
    ELSE IF module = "analysis" THEN {"explore", "profile", "quick_stats"}
    ELSE IF module = "forecast_mmr"
    THEN {"forecast_mmr", "forecast_drivers", "forecast_actions"}
    ELSE {"onboarding_report", "onboarding_dropoff", "onboarding_compare"}

\* a lookup by a name the module does not handle
UnknownLookup ==
    /\ pc = "done"
    /\ \/ call.op = "call_tool" /\ call.name \notin DeclaredTools(call.module)
       \/ call.op = "read_resource" /\ call.uri \notin KnownUris(call.module)
       \/ call.op = "get_prompt_content" /\ call.name \notin KnownPrompts(call.module)

\* C10, as stated: every lookup of an unknown tool, URI or prompt raises
\* ValueError and issues no warehouse query.
C10_AsStated ==
    UnknownLookup =>
        /\ call.result.kind = "raise" /\ call.result.exc = "ValueError"
        /\ call.requests = <<>>

\* C10: a lookup of an unknown tool, URI or prompt never returns a reply and
\* issues no warehouse query; it raises ValueError, except that the modules
\* that acquire the client before the lookup (the general-analysis and
\* top-level call_tool, the forecast and top-level read_resource) raise the
\* construction failure instead when the client cannot be built.
C10_UnknownName ==
    UnknownLookup =>
        /\ call.result.kind = "raise"
        /\ call.requests = <<>>
        /\ call.client_ok => call.result.exc = "ValueError"
        /\ ~call.client_ok =>
              /\ call.result.exc = "ClientError"
              /\ \/ call.op = "call_tool" /\ call.module \in {"analysis", "tools"}
                 \/ call.op = "read_resource" /\ call.module \in {"forecast_mrr", "resources"}

C10_Witness ==
    /\ UnknownLookup
    /\ call.op = "get_prompt_content"
    /\ call.module = "prompts" /\ call.name = "explore"
    /\ call.result = [kind |-> "raise", exc |-> "ValueError", msg |-> "Unknown prompt: explore"]

\* a call of one of the four single-request tools with its required argument
\* present
SingleRequestCall ==
    /\ IsToolCall
    /\ call.module \in {"analysis", "tools"}
    /\ call.name \in {"list_tables", "describe_table", "sample_table", "query_bigquery"}
    /\ LET v == Get(call.arguments, RequiredArg(call.name), NoneStr)
       IN  v # NoneStr /\ v # ""

\* the client method each tool uses
ClientMethod(name) ==
    IF name = "list_tables" THEN "list_tables"
    ELSE IF name = "describe_table" THEN "get_table"
    ELSE "query"

\* the one request of such a call: on the client method of the tool and on
\* the argument given
OneRequest ==
    /\ Len(call.requests) = 1
    /\ call.requests[1].api = ClientMethod(call.name)
    /\ call.requests[1].target = call.arguments[RequiredArg(call.name)]

\* C11, as stated: list_tables, describe_table, sample_table and
\* query_bigquery, called with the required argument present, issue exactly
\* one request to the warehouse client, whether that request succeeds or
\* fails.
C11_AsStated == SingleRequestCall => OneRequest

\* C11: list_tables, describe_table, sample_table and query_bigquery, called
\* with the required argument present, issue exactly one request to the
\* warehouse client, whether that request succeeds or fails, whenever the
\* client could be acquired; when the construction of the client fails the
\* call raises that failure and issues no request.
C11_OneRequest ==
    SingleRequestCall =>
        IF call.client_ok
        THEN OneRequest
        ELSE call.requests = <<>> /\ call.result = Raised("ClientError", ClientMsg)

\* a listing that failed: still one request
C11_Witness ==
    /\ SingleRequestCall /\ call.client_ok
    /\ call.name = "list_tables"
    /\ Len(call.requests) = 1
    /\ call.requests[1].outcome.raise

\* C12: for a table with n schema columns, a successful profile_table call
\* fetches the schema once and then issues min(n, 20) statistics queries, one
\* for each of the first min(n, 20) columns in schema order; the reply has
\* columns_profiled = min(n, 20), column_count = n and no entry past the 20th
\* column.
C12_ProfileQueries ==
    ProfileReturned =>
        LET schema == call.requests[1].outcome.payload.schema
            n == Len(schema)
            k == IF n < 20 THEN n ELSE 20
        IN  /\ call.requests[1].api = "get_table"
            /\ Len(call.requests) = 1 + k
            /\ \A i \in 2..Len(call.requests) :
                  /\ call.requests[i].api = "query"
                  /\ call.requests[i].target = schema[i - 1].name
            /\ Body.columns_profiled = k
            /\ Body.column_count = n
            /\ Len(Body.profile) = k
            /\ \A i \in 1..Len(Body.profile) : Body.profile[i].name = schema[i].name

\* a table of 21 columns: 20 are profiled
C12_Witness ==
    /\ ProfileReturned
    /\ Len(call.requests[1].outcome.payload.schema) = 21
    /\ Len(call.requests) = 21
    /\ Body.columns_profiled = 20 /\ Body.column_count = 21

\* a report call that produced its report
ReportMade == IsReportCall /\ ReportReturned

\* the weekly frame a report or forecast_trend call read (in week order)
MetricsFrame == call.requests[1].outcome.payload

\* the rows of a frame whose weeks are 1..n, in week order
ByWeek(df) == [i \in 1..Len(df) |-> df[CHOOSE j \in 1..Len(df) : df[j].week = i]]

\* the frame an offline run read, in week order
BatchFrame == ByWeek(call.requests[1].outcome.payload)

\* the deltas of the last four rows of a frame (all of them when fewer)
LastDeltas(df) ==
    LET k == IF Len(df) < 4 THEN Len(df) ELSE 4
    IN  [i \in 1..k |-> df[Len(df) - k + i].mrr_change]

\* the sum of the deltas that are not missing
SumObserved(deltas) ==
    LET seen == { i \in 1..Len(deltas) : ~deltas[i].nan }
        RECURSIVE sum(_)
        sum(S) == IF S = {} THEN 0
                  ELSE LET i == CHOOSE j \in S : TRUE IN deltas[i].x + sum(S \ {i})
    IN  sum(seen)

Observed(deltas) == { i \in 1..Len(deltas) : ~deltas[i].nan }

\* a missing delta counts as zero: the sum of the observed ones over the
\* number of all of them
ZeroFilledMean(deltas) == Num(SumObserved(deltas) \div Len(deltas))

\* a missing delta is left out of the sum and of the divisor
SkippingMean(deltas) ==
    IF Observed(deltas) = {} THEN NaN
    ELSE Num(SumObserved(deltas) \div Cardinality(Observed(deltas)))

HasMissing(deltas) == \E i \in 1..Len(deltas) : deltas[i].nan

\* C13, as stated: in the reports, in forecast_trend and in the offline job a
\* missing delta among the last four is replaced by zero before the mean.
C13_AsStated ==
    /\ ReportMade => Sections.avg_change = float(ZeroFilledMean(LastDeltas(MetricsFrame)))
    /\ TrendReturned =>
          IsRounded(Body.weekly_trend, ZeroFilledMean(LastDeltas(MetricsFrame)))
    /\ BatchForecast =>
          IsRounded(call.predictions_df[1].weekly_trend,
                    ZeroFilledMean(LastDeltas(BatchFrame)))

\* C13: in both report variants and in the offline job a missing delta among
\* the last four observations is replaced by zero before the mean is taken (it
\* adds 0 to the sum and counts in the divisor); the forecast_trend tool does
\* not fill: there a missing delta is left out of the sum and of the divisor.
C13_ZeroFill ==
    /\ ReportMade /\ HasMissing(LastDeltas(MetricsFrame)) =>
          Sections.avg_change = float(ZeroFilledMean(LastDeltas(MetricsFrame)))
    /\ BatchForecast /\ HasMissing(LastDeltas(BatchFrame)) =>
          IsRounded(call.predictions_df[1].weekly_trend,
                    ZeroFilledMean(LastDeltas(BatchFrame)))
    /\ TrendReturned /\ HasMissing(LastDeltas(MetricsFrame)) =>
          IsRounded(Body.weekly_trend, SkippingMean(LastDeltas(MetricsFrame)))

\* a report on two weeks, the first delta missing and the second 4: trend 2
C13_Witness ==
    /\ ReportMade
    /\ Len(MetricsFrame) = 2
    /\ MetricsFrame[1].mrr_change.nan
    /\ MetricsFrame[2].mrr_change = Whole(4)
    /\ Sections.avg_change = float(Whole(2))

\* the deltas of a frame that are not missing, in week order
ObservedDeltas(df) ==
    LET RECURSIVE pick(_)
        pick(i) == IF i > Len(df) THEN <<>>
                   ELSE IF df[i].mrr_change.nan THEN pick(i + 1)
                   ELSE <<df[i].mrr_change>> \o pick(i + 1)
    IN  pick(1)

\* the mean of the last four observed deltas, of all of them when fewer
MeanOfObserved(df) ==
    LET obs == ObservedDeltas(df)
        k == IF Len(obs) < 4 THEN Len(obs) ELSE 4
        last == [i \in 1..k |-> obs[Len(obs) - k + i]]
    IN  SkippingMean(last)

\* C14, as stated: with j observed deltas, 1 <= j < 4, the trend is the mean
\* of exactly those j; with j >= 4 it is the mean of the last four.
C14_AsStated ==
    /\ ReportMade /\ ObservedDeltas(MetricsFrame) # <<>> =>
          Sections.avg_change = float(MeanOfObserved(MetricsFrame))
    /\ BatchForecast /\ ObservedDeltas(BatchFrame) # <<>> =>
          IsRounded(call.predictions_df[1].weekly_trend, MeanOfObserved(BatchFrame))

\* C14: when the weekly series has j rows with 1 <= j < 4, the weekly trend of
\* the reports and of the offline job is the sum of the observed deltas of
\* those j rows divided by j (a missing delta counts as a zero delta), and in
\* forecast_trend it is the mean of the observed ones; with j >= 4 the same
\* holds of the last four rows only: earlier rows never affect the trend.
C14_LastFour ==
    /\ ReportMade =>
          LET df == MetricsFrame
              j == Len(df)
              first == IF j < 4 THEN 1 ELSE j - 3
              deltas == [i \in 1..(j - first + 1) |-> df[first + i - 1].mrr_change]
          IN  Sections.avg_change = float(Num(SumObserved(deltas) \div (j - first + 1)))
    /\ BatchForecast =>
          LET df == BatchFrame
              j == Len(df)
              first == IF j < 4 THEN 1 ELSE j - 3
              deltas == [i \in 1..(j - first + 1) |-> df[first + i - 1].mrr_change]
          IN  IsRounded(call.predictions_df[1].weekly_trend,
                    Num(SumObserved(deltas) \div (j - first + 1)))
    /\ TrendReturned =>
          LET df == MetricsFrame
              j == Len(df)
              first == IF j < 4 THEN 1 ELSE j - 3
              deltas == [i \in 1..(j - first + 1) |-> df[first + i - 1].mrr_change]
          IN  IsRounded(Body.weekly_trend, SkippingMean(deltas))

\* a report on five weeks whose first delta differs from the mean of the last
\* four: the first week does not count
C14_Witness ==
    /\ ReportMade
    /\ Len(MetricsFrame) = 5
    /\ MetricsFrame[1].mrr_change = Whole(4)
    /\ \A i \in 2..5 : MetricsFrame[i].mrr_change = Whole(-2)
    /\ Sections.avg_change = float(Whole(-2))

\* C15: in the report assemblers, when the weekly series has exactly one row,
\* the reported week-over-week change is zero, in amount and in percentage,
\* whatever mrr_change that row carries.
C15_SingleRow ==
    ReportMade /\ Len(MetricsFrame) = 1 =>
        /\ Sections.wow_change = Whole(0)
        /\ Sections.wow_pct = Tenths(0)

\* the documented forecast: 120000, 125000, 130000, 135000 and 4.3, 8.7, 13.0,
\* 17.4 per cent
ScenarioMrr == <<120000, 125000, 130000, 135000>>
ScenarioPct == <<43, 87, 130, 174>>

\* C16: for total_mrr = [100000, 110000, 105000, 115000] with the first delta
\* missing, the weekly trend is 5000 and the 4-week forecast from 115000 is
\* [120000, 125000, 130000, 135000] with change percentages [4.3, 8.7, 13.0,
\* 17.4], in forecast_trend and in the offline job.
C16_Scenario ==
    /\ TrendReturned /\ MetricsFrame = ScenarioSeries /\ call.arguments = <<>> =>
          /\ Body.weekly_trend = Whole(5000)
          /\ Body.baseline_mrr = Whole(115000)
          /\ Len(Body.predictions) = 4
          /\ \A k \in 1..4 :
                /\ Body.predictions[k].predicted_mrr = Whole(ScenarioMrr[k])
                /\ Body.predictions[k].change_pct = Tenths(ScenarioPct[k])
    /\ BatchForecast /\ BatchFrame = ScenarioSeries =>
          /\ Len(call.predictions_df) = 4
          /\ \A k \in 1..4 :
                /\ call.predictions_df[k].weekly_trend = Whole(5000)
                /\ call.predictions_df[k].baseline_mrr = Whole(115000)
                /\ call.predictions_df[k].predicted_mrr = Whole(ScenarioMrr[k])
                /\ call.predictions_df[k].change_pct = Tenths(ScenarioPct[k])

\* a process that serves handler calls (run.py serves none: it builds a
\* client of its own and never calls get_client)
ServesHandlers == program \in {"server", "csv"}

\* C17: across the handler calls of one process the warehouse client is built
\* lazily and at most once: there is none before the first get_client call,
\* a call that reached the warehouse has built it, and from then on every
\* call leaves the same instance in place without building another.
C17_Singleton ==
    /\ _client = NoneStr /\ constructions = 0
    /\ [](ServesHandlers =>
            /\ constructions <= 1
            /\ (_client = NoneStr) <=> (constructions = 0)
            /\ (program = "server" /\ pc = "done" /\ call.requests # <<>>)
                  => _client # NoneStr)
    /\ [][ServesHandlers =>
            /\ _client # NoneStr =>
                  _client' = _client /\ constructions' = constructions
            /\ constructions' # constructions =>
                  _client = NoneStr /\ _client' # NoneStr /\ constructions' = 1]_vars

\* a call that reached the warehouse through the one client
C17_Witness ==
    /\ program = "server" /\ pc = "done"
    /\ call.op = "call_tool" /\ call.client_ok
    /\ call.requests # <<>>
    /\ _client # NoneStr /\ constructions = 1

\* an offline run that completed
BatchSucceeded == pc = "done" /\ call.op = "batch" /\ call.result.kind = "return"

\* C18: after a successful offline run, whatever runs came before, the
\* feature-importance table and the predictions table each hold exactly the
\* rows of that run (8 importance rows, 4 prediction rows with weeks_ahead
\* 1..4) and no row of an earlier run.
C18_WriteTruncate ==
    BatchSucceeded =>
        /\ t_forecast_feature_importance = call.importance_df
        /\ t_forecast_predictions = call.predictions_df
        /\ Len(t_forecast_feature_importance) = 8
        /\ Len(t_forecast_predictions) = 4
        /\ \A i \in 1..Len(t_forecast_feature_importance) :
              /\ t_forecast_feature_importance[i].run_date = call.run
              /\ t_forecast_feature_importance[i].rank = i
        /\ \A i \in 1..Len(t_forecast_predictions) :
              /\ t_forecast_predictions[i].run_date = call.run
              /\ t_forecast_predictions[i].weeks_ahead = i

\* a second successful run: the tables hold its rows only
C18_Witness ==
    /\ BatchSucceeded
    /\ call.run = 2
    /\ Len(t_forecast_predictions) = 4
    /\ t_forecast_predictions[1].run_date = 2
    /\ t_forecast_feature_importance[8].run_date = 2

\* a tool call that returned
ToolReturned == IsToolCall /\ call.result.kind = "return"

\* exactly one text payload
OneTextPayload == Len(call.result.value) = 1 /\ call.result.value[1].type = "text"

Payload == call.result.value[1].text

\* a JSON object with a boolean success field, and an error string when
\* success is false
JsonWithSuccess ==
    /\ Payload.format = "json"
    /\ "success" \in DOMAIN Payload.value
    /\ Payload.value.success \in BOOLEAN
    /\ ~Payload.value.success =>
          "error" \in DOMAIN Payload.value /\ Payload.value.error \in STRING

\* C19, as stated: every tool call that returns has exactly one text payload,
\* and for every tool other than forecast_mrr and forecast_mmr the payload is
\* a JSON object with a boolean success field and an error string when
\* success is false.
C19_AsStated ==
    ToolReturned =>
        /\ OneTextPayload
        /\ call.name \notin {"forecast_mrr", "forecast_mmr"} => JsonWithSuccess

\* C19: every tool call that returns has exactly one text payload; the
\* payload is free text for forecast_mrr, forecast_mmr and onboarding_report
\* and for a generate_report call that built its report, and for every other
\* returning call it is a JSON object with a boolean success field, carrying
\* an error string whenever success is false.
C19_OneTextPayload ==
    ToolReturned =>
        /\ OneTextPayload
        /\ IF call.name \in {"forecast_mrr", "forecast_mmr", "onboarding_report"}
           THEN Payload.format = "text"
           ELSE IF call.name = "generate_report" /\ Payload.format = "text"
           THEN Payload.report /\ Payload.sections.title = "WEEKLY SALES REPORT"
           ELSE JsonWithSuccess

\* generate_report on a loaded table returns its report as free text
C19_Witness ==
    /\ ToolReturned
    /\ call.module = "main" /\ call.name = "generate_report"
    /\ OneTextPayload
    /\ Payload.format = "text"
    /\ Payload.sections.summary.leads = "South"

\* the handler of a declared tool ran (in the general-analysis and top-level
\* modules call_tool acquires the client before the handler)
HandlerRan ==
    /\ IsToolCall
    /\ call.name \in DeclaredTools(call.module)
    /\ call.module \in {"analysis", "tools"} => call.client_ok

\* an exception was raised while the handler ran: by any request it issued,
\* by get_client inside it, or by a step on a frame without rows
RaisedInHandler ==
    \/ \E i \in 1..Len(call.requests) : call.requests[i].outcome.raise
    \/ call.module \in {"forecast_mmr", "forecast_mrr"} /\ ~call.client_ok

\* the exception that ended the handler: its first request raised, or
\* get_client raised inside it
EscapedMsgs ==
    (IF call.requests # <<>> /\ call.requests[1].api # "smtp"
        /\ call.requests[1].outcome.raise
     THEN {call.requests[1].outcome.msg} ELSE {})
    \cup
    (IF call.module \in {"forecast_mmr", "forecast_mrr"} /\ ~call.client_ok
     THEN {"Your default credentials were not found"} ELSE {})

ReportPrefix == IF call.name = "forecast_mmr" THEN "Error generating report: " ELSE "Error: "

ReportOnLoadedTable ==
    /\ IsToolCall
    /\ call.module = "main" /\ call.name = "generate_report"
    /\ LET t == IF "table_name" \in DOMAIN call.arguments
                THEN call.arguments.table_name ELSE "sales_data"
       IN  t \in DOMAIN dataframes /\ dataframes[t].data # <<>>

SendEmail == "send_email" \in DOMAIN call.arguments /\ call.arguments.send_email

CredentialsAbsent == EMAIL_PASSWORD = "" \/ EMAIL_SENDER = "your-email@gmail.com"

\* the payload is the whole sales report
FullSalesReport ==
    /\ call.result.kind = "return"
    /\ Len(call.result.value) = 1
    /\ Payload.format = "text" /\ Payload.report
    /\ Payload.sections.title = "WEEKLY SALES REPORT"
    /\ Payload.sections.regional_performance # <<>>
    /\ Payload.sections.recommendations # <<>>

\* C21: generate_report with send_email = true never raises because of the
\* e-mail: without credentials no SMTP session is opened and a warning is
\* the status; when the SMTP session fails, the failure message is the
\* status; in both cases the full report is returned with the status
\* appended.  With send_email = false no session is opened and nothing is
\* appended.
C21_EmailNeverRaises ==
    ReportOnLoadedTable =>
        /\ FullSalesReport
        /\ IF ~SendEmail
           THEN call.requests = <<>> /\ Payload.sections.email_status = "None"
           ELSE IF CredentialsAbsent
           THEN /\ call.requests = <<>>
                /\ Payload.sections.email_status =
                      "Email not configured (see setup instructions)"
           ELSE /\ Len(call.requests) = 1
                /\ call.requests[1].api = "smtp"
                /\ Payload.sections.email_status =
                      (IF call.requests[1].outcome.raise
                       THEN "Email failed: " \o call.requests[1].outcome.msg
                       ELSE "Email sent to " \o EMAIL_RECIPIENT)

\* credentials are set and the SMTP server refuses the connection
C21_Witness ==
    /\ ReportOnLoadedTable /\ SendEmail /\ ~CredentialsAbsent
    /\ FullSalesReport
    /\ call.requests[1].outcome.raise
    /\ Payload.sections.email_status = "Email failed: Connection refused"

\* C22: within one call no warehouse request is sent twice: the schema fetch,
\* each column's statistics query, the metrics query, the feature-importance
\* query and the deals query each appear at most once in the requests of the
\* call, whether they failed or not.
C22_NoRetry ==
    pc = "done" =>
        \A i, j \in 1..Len(call.requests) :
            (/\ call.requests[i].api = call.requests[j].api
             /\ call.requests[i].target = call.requests[j].target) => i = j

\* profile_table on two columns, the first statistics query refused: three
\* requests, the refused one not repeated
C22_Witness ==
    /\ IsToolCall /\ call.name = "profile_table"
    /\ Len(call.requests) = 3
    /\ call.requests[2].outcome.raise
    /\ ~call.requests[3].outcome.raise
    /\ call.requests[2].target # call.requests[3].target

\* a report call whose handler got its client
ReportQueried == IsReportCall /\ call.requests # <<>>

\* the weekly-metrics query raised or returned no row
MetricsUnusable ==
    \/ call.requests[1].outcome.raise
    \/ call.requests[1].outcome.payload = <<>>

QueryOrder == <<"v_model_3_levers", "t_forecast_feature_importance", "v_next_best_action">>

\* C23: a report-assembler call issues its queries in the order weekly
\* metrics, feature importance, deals, each after the one before it has
\* returned or raised, and never stops between the last two; when the
\* weekly-metrics query raises or returns no row, no later query is issued and
\* the call returns a single error text.
C23_QueryOrder ==
    ReportQueried =>
        /\ Len(call.requests) <= 3
        /\ \A i \in 1..Len(call.requests) :
              call.requests[i].api = "query" /\ call.requests[i].target = QueryOrder[i]
        /\ Len(call.requests) \in {1, 3}
        /\ MetricsUnusable =>
              /\ Len(call.requests) = 1
              /\ call.result.kind = "return"
              /\ Len(call.result.value) = 1
              /\ Payload.format = "text" /\ ~Payload.report

\* the feature-importance query raised and the deals query was still issued
\* after it
C23_Witness ==
    /\ ReportQueried /\ ~MetricsUnusable
    /\ Len(call.requests) = 3
    /\ call.requests[2].target = "t_forecast_feature_importance"
    /\ call.requests[2].outcome.raise
    /\ call.requests[3].target = "v_next_best_action"

\* C24, as stated: a successful report-assembler call issues between four and
\* five warehouse queries.
C24_AsStated ==
    ReportMade => Len(call.requests) \in 4..5

\* C24: a successful report-assembler call (forecast_mrr or forecast_mmr)
\* issues exactly three warehouse queries in total.
C24_ThreeQueries ==
    ReportMade =>
        /\ Len(call.requests) = 3
        /\ \A i \in 1..Len(call.requests) : call.requests[i].api = "query"

\* forecast_mmr produced its report from three answered queries
C24_Witness ==
    /\ ReportMade
    /\ call.name = "forecast_mmr"
    /\ Len(call.requests) = 3
    /\ \A i \in 1..3 : ~call.requests[i].outcome.raise

\* C25: in the CSV variant no call changes the table cache or its metadata:
\* the table names, each table's rows and columns, and csv_info are the same
\* after every step as before it.
C25_CacheReadOnly ==
    [][dataframes' = dataframes /\ csv_info' = csv_info]_vars

\* query_table returned fewer rows than the table has, and the table still
\* has them all
C25_Witness ==
    /\ IsToolCall /\ call.module = "main" /\ call.name = "query_table"
    /\ call.result.kind = "return" /\ Body.success /\ Body.truncated
    /\ Body.table_name \in DOMAIN dataframes
    /\ Body.rows < Len(dataframes[Body.table_name].data)
    /\ csv_info[Body.table_name].row_count = Len(dataframes[Body.table_name].data)

\* an offline run whose query was answered with a non-empty frame
BatchRead ==
    /\ pc = "done" /\ call.op = "batch"
    /\ call.requests # <<>>
    /\ ~call.requests[1].outcome.raise
    /\ call.requests[1].outcome.payload # <<>>

\* C26: the offline job drops the first week's row, the one with no lag value
\* in mrr_lag1, before it trains and forecasts: n loaded weeks whose first
\* week lacks the lag value become n-1 rows.
C26_DropsFirstRow ==
    (BatchRead /\ BatchFrame[1].mrr_lag1.nan) =>
        Len(call.df) = Len(BatchFrame) - 1

\* a tool call of the general-analysis module or of the top-level tools
\* module in which the client could not be constructed
ClientFailedCall ==
    IsToolCall /\ call.module \in {"analysis", "tools"} /\ ~call.client_ok

\* C27: in the general-analysis module and the top-level tools module the
\* client is acquired before the tool name or the arguments are looked at:
\* when its construction fails, every call, whatever the name and whether or
\* not the required argument is there, raises the construction failure to the
\* caller, sends nothing to the warehouse and returns no {success:false}.
C27_ClientFirst ==
    ClientFailedCall =>
        /\ call.result.kind = "raise"
        /\ call.result.exc = "ClientError"
        /\ call.result.msg = ClientMsg
        /\ call.requests = <<>>

\* describe_table without its table argument, client construction failing
C27_Witness ==
    /\ ClientFailedCall
    /\ call.module = "analysis" /\ call.name = "describe_table"
    /\ "table" \notin DOMAIN call.arguments
    /\ call.result.kind = "raise" /\ call.result.exc = "ClientError"

\* the load requests of an offline run, in the order they were sent
LoadsOf(requests) ==
    SelectSeq(requests, LAMBDA r : r.api = "load")

\* C28: the offline job loads the importance table before the predictions
\* table and not atomically. When the importance load fails no predictions
\* load is sent and both tables keep the rows they had before the run; when
\* the importance load succeeds and the predictions load fails the importance
\* table holds this run's rows and the predictions table the rows it had
\* before the run.
C28_NotAtomic ==
    [][ (pc = "idle" /\ pc' = "done" /\ call'.op = "batch") =>
          LET loads == LoadsOf(call'.requests) IN
          /\ Len(loads) <= 2
          /\ Len(loads) >= 1 => loads[1].target = "t_forecast_feature_importance"
          /\ Len(loads) = 2 =>
                /\ ~loads[1].outcome.raise
                /\ loads[2].target = "t_forecast_predictions"
          /\ (Len(loads) >= 1 /\ loads[1].outcome.raise) =>
                /\ Len(loads) = 1
                /\ t_forecast_feature_importance' = t_forecast_feature_importance
                /\ t_forecast_predictions' = t_forecast_predictions
          /\ (Len(loads) = 2 /\ loads[2].outcome.raise) =>
                /\ t_forecast_feature_importance' = call'.importance_df
                /\ t_forecast_predictions' = t_forecast_predictions
      ]_vars

\* a second run whose predictions load failed: the importance table is of
\* run 2, the predictions table still of run 1
C28_Witness ==
    /\ pc = "done" /\ call.op = "batch" /\ call.run = 2
    /\ Len(LoadsOf(call.requests)) = 2
    /\ LoadsOf(call.requests)[2].outcome.raise
    /\ t_forecast_feature_importance # <<>>
    /\ t_forecast_feature_importance[1].run_date = 2
    /\ t_forecast_predictions # <<>>
    /\ t_forecast_predictions[1].run_date = 1

\* a read of one of the two forecast resources by a module that serves them
ForecastRead ==
    /\ pc = "done" /\ call.op = "read_resource"
    /\ call.module \in {"forecast_mrr", "resources"}
    /\ call.uri \in {"forecast://latest", "forecast://feature_importance"}

\* a read of a static resource by a module that serves it
StaticRead ==
    /\ pc = "done" /\ call.op = "read_resource"
    /\ \/ /\ call.module \in {"analysis", "resources"}
          /\ call.uri \in {"schema://bigquery", "schema://datasets"}
       \/ /\ call.module = "onboarding"
          /\ call.uri \in {"onboarding://funnel", "onboarding://dropoff"}

\* the fixed JSON of a static resource, a function of the URI alone
StaticJson(uri) ==
    IF uri = "schema://bigquery" THEN Returned(SchemaBigquery)
    ELSE IF uri = "schema://datasets" THEN Returned(SchemaDatasets)
    ELSE OnboardingResource(uri).result

ClientRaised ==
    call.requests = <<>> /\ call.result = Raised("ClientError", ClientMsg)

\* C29, as stated: every read of a forecast resource issues exactly one
\* warehouse query, whose exception propagates; every read of a static
\* schema:// or onboarding:// resource issues no query and returns its fixed
\* JSON.
C29_AsStated ==
    /\ ForecastRead =>
          /\ Len(call.requests) = 1 /\ call.requests[1].api = "query"
          /\ call.requests[1].outcome.raise => call.result.kind = "raise"
    /\ StaticRead =>
          call.requests = <<>> /\ call.result = StaticJson(call.uri)

\* C29: a read of a forecast resource, once the client has been acquired,
\* issues exactly one warehouse query, and an exception of that query
\* propagates to the caller instead of becoming JSON. A read of a static
\* schema:// or onboarding:// resource issues no warehouse query; it returns
\* its fixed JSON always in the general-analysis and onboarding modules, and
\* in the top-level resources module whenever the client could be acquired.
\* When the client cannot be constructed, a read through the forecast module
\* or the top-level resources module issues no query and raises the
\* construction failure.
C29_ResourceReads ==
    /\ (ForecastRead /\ call.client_ok) =>
          /\ Len(call.requests) = 1 /\ call.requests[1].api = "query"
          /\ call.requests[1].outcome.raise =>
                call.result = Raised("WarehouseError", call.requests[1].outcome.msg)
          /\ ~call.requests[1].outcome.raise => call.result.kind = "return"
    /\ (ForecastRead /\ ~call.client_ok) => ClientRaised
    /\ StaticRead =>
          /\ call.requests = <<>>
          /\ call.module \in {"analysis", "onboarding"} =>
                call.result = StaticJson(call.uri)
          /\ (call.module = "resources" /\ call.client_ok) =>
                call.result = StaticJson(call.uri)
          /\ (call.module = "resources" /\ ~call.client_ok) => ClientRaised

\* forecast://latest read through the top-level module: the one query
\* raised and the read raised with it
C29_Witness ==
    /\ ForecastRead /\ call.client_ok
    /\ call.module = "resources" /\ call.uri = "forecast://latest"
    /\ Len(call.requests) = 1 /\ call.requests[1].outcome.raise
    /\ call.result.kind = "raise" /\ call.result.exc = "WarehouseError"

\* forecast_trend, asked for at least one week, read a frame whose last row
\* has revenue 0
TrendFromZero ==
    /\ IsToolCall /\ call.name = "forecast_trend"
    /\ Get(call.arguments, "weeks", 4) >= 1
    /\ call.requests # <<>> /\ ~call.requests[1].outcome.raise
    /\ TrendFrame # <<>>
    /\ TrendFrame[Len(TrendFrame)].total_mrr.x = 0
    /\ ~TrendFrame[Len(TrendFrame)].total_mrr.nan

\* an offline run that trained on a frame whose last week has revenue 0
BatchFromZero ==
    /\ BatchRead
    /\ BatchFrame[Len(BatchFrame)].total_mrr.x = 0

\* C30: when the last observed revenue is 0 the percent-change division
\* fails: forecast_trend, asked for one week or more, returns
\* {success:false, error:...} without predictions, and the offline job raises
\* before either load, so both output tables are as they were before the run.
C30_ZeroRevenue ==
    [][ /\ TrendFromZero' =>
             /\ call'.result.kind = "return"
             /\ Body'.success = FALSE
             /\ Body'.error = ZeroDivisionMsg
             /\ "predictions" \notin DOMAIN Body'
        /\ (pc = "idle" /\ BatchFromZero') =>
             /\ call'.result.kind = "raise"
             /\ call'.importance_df # <<>> =>
                   call'.result = Raised("ZeroDivisionError", ZeroDivisionMsg)
             /\ LoadsOf(call'.requests) = <<>>
             /\ call'.predictions_df = <<>>
             /\ t_forecast_feature_importance' = t_forecast_feature_importance
             /\ t_forecast_predictions' = t_forecast_predictions
      ]_vars

\* a second offline run stopped by the division: the tables are of run 1
C30_Witness ==
    /\ BatchFromZero /\ call.run = 2 /\ call.importance_df # <<>>
    /\ call.result.kind = "raise" /\ call.result.exc = "ZeroDivisionError"
    /\ t_forecast_predictions # <<>>
    /\ t_forecast_predictions[1].run_date = 1

====
